---- MODULE Spec2Model ----
(***************************************************************************)
(* wilt::NArray<T, N>: an N-dimensional strided view (data_, sizes_,       *)
(* steps_) over shared, reference-counted storage.                         *)
(*                                                                         *)
(* A Point<N> is a sequence of N integers; the source indexes axes from 0, *)
(* so axis `dim` of the source is element dim+1 of the sequence.           *)
(* A std::shared_ptr<T> is the pair (cb, ptr): the control block it owns   *)
(* (0 when it owns nothing) and the stored pointer (Null when nullptr).    *)
(* Control block b counts its owners in use_count[b] and deletes the       *)
(* storage it manages when the count reaches zero.  Storage block b holds  *)
(* size(sizes) elements at the addresses BlockBase(b) .. +count-1.         *)
(*                                                                         *)
(* Seven specifications share the definitions of the operations:           *)
(*   Spec    the lifecycle of the objects of one thread and of the buffer  *)
(*           they share: construct, copy, move, assign, clear, destroy and *)
(*           the transformations;                                          *)
(*   SpecT   each transformation as a function of its receiver and its     *)
(*           arguments, with the outcome (view or exception) recorded;     *)
(*   SpecR   reshape, asAligned, asCondensed and the predicates            *)
(*           isContiguous and isAligned on derived views;                  *)
(*   SpecD   the calls that read and write elements (clone, convertTo,     *)
(*           setTo, the compound assignments, the older header's engine)   *)
(*           with the contents of the storage blocks;                      *)
(*   SpecP   median, compress and subarrayAt on arrays with any elements;  *)
(*   SpecC   detail::condense on views with any sizes and steps;           *)
(*   SpecMT  several threads, each with its own objects on one buffer.     *)
(***************************************************************************)
EXTENDS Integers, Sequences, FiniteSets, TLC

\* ---------------------------------------------------------------- bounds
MaxViews == 2      \* NArray objects alive at once
MaxCalls == 1      \* transformation calls that return a view, per run
MaxDepth == 2      \* SpecT: transformations chained before the call under study
MaxThreads == 2    \* SpecMT: threads that hold views of the one buffer
MaxVal == 2        \* SpecP: the elements of the constructed array are 0..MaxVal

VARIABLES
  views,       \* slot -> the NArray object in it (data_, sizes_, steps_)
  live,        \* the slots that hold a constructed, not yet destroyed object
  use_count,   \* control block -> number of shared_ptr owners
  released,    \* control block -> times its storage was deleted
  nblocks,     \* storage blocks allocated so far
  mem,         \* storage block -> its elements (<<>> when not allocated / deleted)
  op,          \* the transformation call that has just returned: receiver, result slot
  ncalls,      \* transformation calls that returned a view so far
  cur,         \* SpecT: the receiver of the calls
  call,        \* SpecT: the call made on cur, kind and arguments
  ret,         \* SpecT: what the call returned or threw
  depth,       \* SpecT: transformations applied to reach cur
  tviews,      \* SpecMT: thread -> slot -> the NArray object the thread owns there
  tlive,       \* SpecMT: thread -> the slots that hold a constructed object
  tpc          \* SpecMT: thread -> what is left of the operation it is in

varsL == <<views, live, use_count, released, nblocks, mem, op, ncalls>>
varsT == <<cur, call, ret, depth>>
varsM == <<tviews, tlive, tpc>>
vars == <<varsL, varsT, varsM>>

Null == 0

\* ----------------------------------------------------- Point<N> (point.hpp)
PointZero(N) == [i \in 1..N |-> 0]

removed(p, dim) == [i \in 1..(Len(p) - 1) |-> IF i <= dim THEN p[i] ELSE p[i + 1]]

inserted(p, dim, v) ==
  [i \in 1..(Len(p) + 1) |-> IF i <= dim THEN p[i] ELSE IF i = dim + 1 THEN v ELSE p[i - 1]]

swapped(p, a, b) ==
  [i \in 1..Len(p) |-> IF i = a + 1 THEN p[b + 1] ELSE IF i = b + 1 THEN p[a + 1] ELSE p[i]]

\* ------------------------------------------------------------- detail::
RECURSIVE ProdFrom(_, _)
ProdFrom(p, i) == IF i > Len(p) THEN 1 ELSE p[i] * ProdFrom(p, i + 1)

\* detail::step: {..., a, b, c, d} -> {..., b*c*d, c*d, d, 1}
step(sizes) == [i \in 1..Len(sizes) |-> ProdFrom(sizes, i + 1)]

\* detail::size: the product of the dimension sizes
size(sizes) == ProdFrom(sizes, 1)

\* faulty variant: only a negative size is rejected
validSizeNegative(sz) == \A i \in 1..Len(sz) : ~(sz[i] < 0)

\* detail::validSize
validSize(sz) == \A i \in 1..Len(sz) : ~(sz[i] <= 0)

\* ------------------------------------------------------------ NArray<T,N>
SharedPtr(cb, ptr) == [cb |-> cb, ptr |-> ptr]

View(data, sizes, steps) == [data_ |-> data, sizes_ |-> sizes, steps_ |-> steps]

\* NArray(): data_(), sizes_(), steps_()
EmptyView(N) == View(SharedPtr(0, Null), PointZero(N), PointZero(N))

Dim(v) == Len(v.sizes_)

empty(v) == v.data_.ptr = Null

RECURSIVE Dot(_, _, _)
Dot(a, b, i) == IF i > Len(a) THEN 0 ELSE a[i] * b[i] + Dot(a, b, i + 1)

\* atUnchecked: ptr = data_.get(); ptr += loc[i] * steps_[i] for every i
atUnchecked(v, loc) == v.data_.ptr + Dot(loc, v.steps_, 1)

\* the locations at() accepts: 0 <= loc[i] < sizes_[i] on every axis
RECURSIVE Locs(_)
Locs(sizes) ==
  IF Len(sizes) = 0 THEN {<<>>}
  ELSE {<<h>> \o t : h \in 0..(sizes[1] - 1), t \in Locs(Tail(sizes))}

\* the location of the k-th element (k from 0) in canonical order: the last axis
\* runs fastest
Unravel(k, sizes) == [i \in 1..Len(sizes) |-> (k \div ProdFrom(sizes, i + 1)) % sizes[i]]

\* begin() .. end(): the addresses a view visits in canonical (row-major) order
Canonical(v) == [k \in 1..size(v.sizes_) |-> atUnchecked(v, Unravel(k - 1, v.sizes_))]

\* outcome of a call: a returned view, or the exception thrown
Ok(v) == [err |-> "none", view |-> v]
Throw(e) == [err |-> e]

at(v, loc) ==
  IF empty(v) THEN Throw("runtime_error")
  ELSE IF \E i \in 1..Dim(v) : loc[i] >= v.sizes_[i] \/ loc[i] < 0 THEN Throw("out_of_range")
  ELSE [err |-> "none", addr |-> atUnchecked(v, loc)]

\* std::shared_ptr<T>(data_, newdata): shares data_'s control block, stores newdata
Alias(v, newdata) == SharedPtr(v.data_.cb, newdata)

\* Point<N>::low<K>(): the K trailing entries
low(p, K) == [i \in 1..K |-> p[Len(p) - K + i]]

\* Point<N>::high<K>(): the K leading entries
high(p, K) == [i \in 1..K |-> p[i]]

\* -------------------------------------------------------- transformations
\* faulty variant: the data pointer is not advanced to position n
slice_NotAdvanced(v, dim, n) ==
  View(Alias(v, v.data_.ptr), removed(v.sizes_, dim), removed(v.steps_, dim))

slice_(v, dim, n) ==
  LET newdata == v.data_.ptr + v.steps_[dim + 1] * n
      newsizes == removed(v.sizes_, dim)
      newsteps == removed(v.steps_, dim)
  IN View(Alias(v, newdata), newsizes, newsteps)

slice(v, dim, n) ==
  IF dim >= Dim(v) THEN Throw("out_of_range")
  ELSE IF n >= v.sizes_[dim + 1] \/ n < 0 THEN Throw("out_of_range")
  ELSE Ok(slice_(v, dim, n))

range_(v, dim, start, length) ==
  LET newdata == v.data_.ptr + v.steps_[dim + 1] * start
      newsizes == [v.sizes_ EXCEPT ![dim + 1] = length]
  IN View(Alias(v, newdata), newsizes, v.steps_)

range(v, dim, start, length) ==
  IF dim >= Dim(v) THEN Throw("out_of_range")
  ELSE IF start < 0 \/ start >= v.sizes_[dim + 1] THEN Throw("out_of_range")
  ELSE IF length <= 0 \/ start + length > v.sizes_[dim + 1] THEN Throw("out_of_range")
  ELSE Ok(range_(v, dim, start, length))

\* faulty variant: the step is negated but the data pointer stays at the first element
flip_NotMoved(v, dim) ==
  View(Alias(v, v.data_.ptr), v.sizes_, [v.steps_ EXCEPT ![dim + 1] = -v.steps_[dim + 1]])

flip_(v, dim) ==
  LET newdata == v.data_.ptr + v.steps_[dim + 1] * (v.sizes_[dim + 1] - 1)
      newsteps == [v.steps_ EXCEPT ![dim + 1] = -v.steps_[dim + 1]]
  IN View(Alias(v, newdata), v.sizes_, newsteps)

flip(v, dim) ==
  IF dim >= Dim(v) THEN Throw("out_of_range")
  ELSE Ok(flip_(v, dim))

\* faulty variant: the new size is rounded down
skip_RoundedDown(v, dim, n, start) ==
  View(Alias(v, v.data_.ptr + v.steps_[dim + 1] * start),
       [v.sizes_ EXCEPT ![dim + 1] = (v.sizes_[dim + 1] - start) \div n],
       [v.steps_ EXCEPT ![dim + 1] = v.steps_[dim + 1] * n])

skip_(v, dim, n, start) ==
  LET newdata == v.data_.ptr + v.steps_[dim + 1] * start
      newsizes == [v.sizes_ EXCEPT ![dim + 1] = (v.sizes_[dim + 1] - start + n - 1) \div n]
      newsteps == [v.steps_ EXCEPT ![dim + 1] = v.steps_[dim + 1] * n]
  IN View(Alias(v, newdata), newsizes, newsteps)

skip(v, dim, n, start) ==
  IF dim >= Dim(v) THEN Throw("out_of_range")
  ELSE IF n < 1 \/ n >= v.sizes_[dim + 1] THEN Throw("out_of_range")
  ELSE IF start < 0 \/ start >= v.sizes_[dim + 1] THEN Throw("out_of_range")
  ELSE Ok(skip_(v, dim, n, start))

\* faulty variant: the sizes are swapped, the steps are not
transposeSizesOnly(v, dim1, dim2) ==
  IF dim1 >= Dim(v) \/ dim2 >= Dim(v) THEN Throw("out_of_range")
  ELSE Ok(View(v.data_, swapped(v.sizes_, dim1, dim2), v.steps_))

transpose(v, dim1, dim2) ==
  IF dim1 >= Dim(v) THEN Throw("out_of_range")
  ELSE IF dim2 >= Dim(v) THEN Throw("out_of_range")
  ELSE Ok(View(v.data_, swapped(v.sizes_, dim1, dim2), swapped(v.steps_, dim1, dim2)))

\* faulty variant: the data pointer is not advanced to loc
subarrayFromOrigin(v, loc, sz) ==
  IF \E i \in 1..Dim(v) :
       sz[i] + loc[i] > v.sizes_[i] \/ sz[i] <= 0 \/ loc[i] < 0 \/ loc[i] >= v.sizes_[i]
  THEN Throw("out_of_range")
  ELSE Ok(View(v.data_, sz, v.steps_))

\* subarray: the loop checks axis i and then advances newdata by steps_[i] * loc[i]
subarray(v, loc, sz) ==
  IF \E i \in 1..Dim(v) :
       sz[i] + loc[i] > v.sizes_[i] \/ sz[i] <= 0 \/ loc[i] < 0 \/ loc[i] >= v.sizes_[i]
  THEN Throw("out_of_range")
  ELSE Ok(View(Alias(v, v.data_.ptr + Dot(loc, v.steps_, 1)), sz, v.steps_))

\* subarrayAtUnchecked<M>: newdata += steps_[i] * pos[i] for i < M
\* faulty variant: the leading sizes and steps are kept
subarrayAtLeading(v, pos) ==
  LET M == Len(pos)
      newdata == v.data_.ptr + Dot(pos, SubSeq(v.steps_, 1, M), 1)
  IN View(Alias(v, newdata), SubSeq(v.sizes_, 1, Dim(v) - M), SubSeq(v.steps_, 1, Dim(v) - M))

subarrayAtUnchecked(v, pos) ==
  LET M == Len(pos)
      newsizes == low(v.sizes_, Dim(v) - M)
      newsteps == low(v.steps_, Dim(v) - M)
      newdata == v.data_.ptr + Dot(pos, SubSeq(v.steps_, 1, M), 1)
  IN View(Alias(v, newdata), newsizes, newsteps)

subarrayAt(v, pos) ==
  IF empty(v) THEN Throw("runtime_error")
  ELSE IF \E i \in 1..Len(pos) : pos[i] >= v.sizes_[i] \/ pos[i] < 0 THEN Throw("out_of_range")
  ELSE Ok(subarrayAtUnchecked(v, pos))

\* faulty variant: the new axis steps through the data
repeatStepOne(v, n) ==
  IF empty(v) THEN Throw("domain_error")
  ELSE IF n <= 0 THEN Throw("invalid_argument")
  ELSE Ok(View(v.data_, inserted(v.sizes_, Dim(v), n), inserted(v.steps_, Dim(v), 1)))

repeat(v, n) ==
  IF empty(v) THEN Throw("domain_error")
  ELSE IF n <= 0 THEN Throw("invalid_argument")
  ELSE Ok(View(v.data_, inserted(v.sizes_, Dim(v), n), inserted(v.steps_, Dim(v), 0)))

\* faulty variant: the windowed axis keeps its length
window_FullLength(v, dim, n) ==
  View(v.data_, inserted(v.sizes_, Dim(v), n), inserted(v.steps_, Dim(v), v.steps_[dim + 1]))

window_(v, dim, n) ==
  LET ins == inserted(v.sizes_, Dim(v), n)
      newsizes == [ins EXCEPT ![dim + 1] = ins[dim + 1] - (n - 1)]
      newsteps == inserted(v.steps_, Dim(v), v.steps_[dim + 1])
  IN View(v.data_, newsizes, newsteps)

window(v, dim, n) ==
  IF dim >= Dim(v) THEN Throw("out_of_range")
  ELSE IF n < 1 \/ n > v.sizes_[dim + 1] THEN Throw("out_of_range")
  ELSE Ok(window_(v, dim, n))

abs(x) == IF x < 0 THEN -x ELSE x

\* isContiguous: stepSize += steps_[i] * (sizes_[i] - 1); stepSize + 1 == size()
RECURSIVE stepSize(_, _)
stepSize(v, i) ==
  IF i > Dim(v) THEN 0 ELSE v.steps_[i] * (v.sizes_[i] - 1) + stepSize(v, i + 1)

isContiguous(v) == stepSize(v, 1) + 1 = size(v.sizes_)

\* isAligned: the loop from the last axis to the first, i is the source's i
RECURSIVE isAlignedFrom(_, _, _)
isAlignedFrom(v, i, endstep) ==
  IF i > 0
  THEN IF v.sizes_[i] = 1 THEN isAlignedFrom(v, i - 1, endstep)
       ELSE IF endstep > v.steps_[i] THEN FALSE
       ELSE isAlignedFrom(v, i - 1, endstep + (v.sizes_[i] - 1) * v.steps_[i])
  ELSE TRUE

isAligned(v) == IF empty(v) THEN FALSE ELSE isAlignedFrom(v, Dim(v), 0)

\* detail::align: first loop makes every step positive and moves the offset to the
\* lowest address; second loop is an insertion sort by decreasing step
\* faulty variant: the steps are negated but the offset to the lowest address is lost
RECURSIVE alignFlipNoOffset(_, _, _)
alignFlipNoOffset(steps, sizes, i) ==
  IF i > Len(steps) THEN [steps |-> steps, offset |-> 0]
  ELSE LET rest == alignFlipNoOffset(steps, sizes, i + 1)
       IN IF steps[i] < 0
          THEN [steps |-> [rest.steps EXCEPT ![i] = -steps[i]], offset |-> rest.offset]
          ELSE rest

RECURSIVE alignFlip(_, _, _)
alignFlip(steps, sizes, i) ==
  IF i > Len(steps) THEN [steps |-> steps, offset |-> 0]
  ELSE LET rest == alignFlip(steps, sizes, i + 1)
       IN IF steps[i] < 0
          THEN [steps |-> [rest.steps EXCEPT ![i] = -steps[i]],
                offset |-> rest.offset - (-steps[i]) * (sizes[i] - 1)]
          ELSE rest

RECURSIVE alignInner(_, _)
alignInner(st, j) ==
  IF j > 0 /\ st.steps[j + 1] > st.steps[j]
  THEN alignInner([sizes |-> swapped(st.sizes, j, j - 1),
                   steps |-> swapped(st.steps, j, j - 1)], j - 1)
  ELSE st

RECURSIVE alignOuter(_, _)
alignOuter(st, i) ==
  IF i < Len(st.sizes) THEN alignOuter(alignInner(st, i), i + 1) ELSE st

align(sizes, steps) ==
  LET f == alignFlip(steps, sizes, 1)
      s == alignOuter([sizes |-> sizes, steps |-> f.steps], 1)
  IN [sizes |-> s.sizes, steps |-> s.steps, offset |-> f.offset]

\* faulty variant: adjacent axes are merged without the test
RECURSIVE condenseLoopUntested(_, _)
condenseLoopUntested(st, i) ==
  IF i > 0
  THEN condenseLoopUntested([st EXCEPT !.sizes[st.j + 1] = st.sizes[st.j + 1] * st.sizes[i]], i - 1)
  ELSE st

\* detail::condense(sizes, steps): st.j is the source's j, i counts down from N-1 to 1
RECURSIVE condenseLoop(_, _)
condenseLoop(st, i) ==
  IF i > 0
  THEN IF st.steps[st.j + 1] * st.sizes[st.j + 1] = st.steps[i]
       THEN condenseLoop([st EXCEPT !.sizes[st.j + 1] = st.sizes[st.j + 1] * st.sizes[i]], i - 1)
       ELSE condenseLoop([sizes |-> [st.sizes EXCEPT ![st.j] = st.sizes[i]],
                          steps |-> [st.steps EXCEPT ![st.j] = st.steps[i]],
                          j |-> st.j - 1], i - 1)
  ELSE st

condense(sizes, steps) ==
  LET N == Len(sizes)
      st == condenseLoop([sizes |-> sizes, steps |-> steps, j |-> N - 1], N - 1)
      fill == abs(st.sizes[st.j + 1] * st.steps[st.j + 1])
  IN [sizes |-> [i \in 1..N |-> IF i <= st.j THEN 1 ELSE st.sizes[i]],
      steps |-> [i \in 1..N |-> IF i <= st.j THEN fill ELSE st.steps[i]],
      n |-> N - st.j]

\* reshape<M>: the lockstep walk over the condensed axes (i) and the requested axes (j)
RECURSIVE reshapeLoop(_, _, _)
reshapeLoop(st, newsizes, N) ==
  IF st.i < N /\ st.j < Len(newsizes)
  THEN LET o == st.oldsizes[st.i + 1]
           w == newsizes[st.j + 1]
       IN IF (o \div w) * w = o
          THEN reshapeLoop([st EXCEPT !.newsteps[st.j + 1] = (o \div w) * st.oldsteps[st.i + 1],
                                      !.oldsizes[st.i + 1] = o \div w,
                                      !.j = st.j + 1], newsizes, N)
          ELSE IF o = 1
          THEN reshapeLoop([st EXCEPT !.i = st.i + 1], newsizes, N)
          ELSE [st EXCEPT !.err = "domain_error"]
  ELSE st

reshape(v, sz) ==
  IF empty(v) THEN Throw("domain_error")
  ELSE IF ~validSize(sz) THEN Throw("invalid_argument")
  ELSE LET N == Dim(v)
           M == Len(sz)
           c == condense(v.sizes_, v.steps_)
           st == reshapeLoop([oldsizes |-> c.sizes, oldsteps |-> c.steps,
                              newsteps |-> PointZero(M), i |-> N - c.n, j |-> 0,
                              err |-> "none"], sz, N)
       IN IF st.err # "none" THEN Throw(st.err)
          \* for (k = N; k < N; ++k): no iteration
          ELSE IF \E k \in (st.j + 1)..M : sz[k] # 1 THEN Throw("domain_error")
          ELSE Ok(View(v.data_, sz,
                       [k \in 1..M |-> IF k > st.j THEN 1 ELSE st.newsteps[k]]))

\* faulty variant: the data pointer is not moved to the lowest address
asAlignedNotMoved(v) ==
  IF empty(v) THEN Ok(EmptyView(Dim(v)))
  ELSE LET a == align(v.sizes_, v.steps_)
       IN Ok(View(v.data_, a.sizes, a.steps))

asAligned(v) ==
  IF empty(v) THEN Ok(EmptyView(Dim(v)))
  ELSE LET a == align(v.sizes_, v.steps_)
       IN Ok(View(Alias(v, v.data_.ptr + a.offset), a.sizes, a.steps))

asCondensed(v) ==
  IF empty(v) THEN Ok(EmptyView(Dim(v)))
  ELSE LET c == condense(v.sizes_, v.steps_)
       IN Ok(View(v.data_, c.sizes, c.steps))

\* ------------------------------------------------------ the view lifecycle
Slots == 1..MaxViews
Arities == {1, 2}      \* the arities N instantiated
Dims == 0..2           \* dim arguments, one past the largest axis included
Pos == -1..2           \* position, length and count arguments

RECURSIVE Tuples(_, _)
Tuples(n, S) == IF n = 0 THEN {<<>>} ELSE {<<h>> \o t : h \in S, t \in Tuples(n - 1, S)}

\* sizes passed to NArray(const Point<N>& size)
CtorSizes == {<<2>>, <<1, 2>>, <<2, 0>>, <<-1, 2>>}

\* the control blocks / storage blocks, one per successful NArray(size)
Blocks == {1}

\* addresses reserved per storage block
BlockSpan == 2

BlockBase(b) == (b - 1) * BlockSpan + 1

\* faulty variant: the increment is lost
AcquireLost(cnt, sp) == cnt

\* shared_ptr copy: one more owner of the control block
Acquire(cnt, sp) == IF sp.cb = 0 THEN cnt ELSE [cnt EXCEPT ![sp.cb] = @ + 1]

\* shared_ptr reset / destruction: one owner fewer
Release(cnt, sp) == IF sp.cb = 0 THEN cnt ELSE [cnt EXCEPT ![sp.cb] = @ - 1]

\* faulty variant: the storage is deleted while one other owner remains
DisposedEarly(cnt, sp) == sp.cb # 0 /\ cnt[sp.cb] <= 2

\* the owner whose decrement reaches zero deletes the storage
Disposed(cnt, sp) == sp.cb # 0 /\ cnt[sp.cb] = 1

\* NArrayDataBlock(n) (narraydatablock.hpp): block b with n default elements, and the
\* shared_ptr to its first element that data() returns
NArrayDataBlock(b, n) == [data |-> SharedPtr(b, BlockBase(b)), elems |-> [k \in 1..n |-> 0]]

\* ~NArrayDataBlock: the elements of block b are gone; h = [use_count, released, mem]
DeleteBlock(h, b) == [h EXCEPT !.released[b] = @ + 1, !.mem[b] = <<>>]

\* the heap after dropping shared_ptr sp
Drop(h, sp) ==
  LET counted == [h EXCEPT !.use_count = Release(h.use_count, sp)]
  IN IF Disposed(h.use_count, sp) THEN DeleteBlock(counted, sp.cb) ELSE counted

\* faulty variant: the copy of the shared_ptr is not counted
ShareUncounted(h, sp) == h

Share(h, sp) == [h EXCEPT !.use_count = Acquire(h.use_count, sp)]

Heap == [use_count |-> use_count, released |-> released, mem |-> mem]

SetHeap(h) ==
  /\ use_count' = h.use_count
  /\ released' = h.released
  /\ mem' = h.mem

\* faulty variant: only the data is reset, the dimensions stay
clearDataOnly(v) == View(SharedPtr(0, Null), v.sizes_, v.steps_)

\* NArray::clear(): data_.reset(); sizes_.clear(); steps_.clear()
clear(v) == EmptyView(Dim(v))

FreeSlots == Slots \ live
NewSlot == CHOOSE j \in FreeSlots : \A k \in FreeSlots : j <= k

\* op: the transformation call that has just returned, NoCall after any other step
Call(src, dst) == [src |-> src, dst |-> dst]
NoCall == Call(0, 0)

\* op after NArray(size) has thrown std::invalid_argument
Threw(sz) == [src |-> 0, dst |-> 0, size |-> sz]

NoRet == [err |-> "idle"]
NoArgs == [kind |-> "none", args |-> <<>>]

\* SpecT's variables while the lifecycle runs
IdleT ==
  /\ cur = EmptyView(0)
  /\ call = NoArgs
  /\ ret = NoRet
  /\ depth = 0

\* no object constructed yet, no block allocated
InitL ==
  /\ views = [i \in Slots |-> EmptyView(0)]
  /\ live = {}
  /\ use_count = [b \in Blocks |-> 0]
  /\ released = [b \in Blocks |-> 0]
  /\ nblocks = 0
  /\ mem = [b \in Blocks |-> <<>>]
  /\ op = NoCall
  /\ ncalls = 0

\* SpecMT's variables while a single thread runs
Threads == 1..MaxThreads
ThreadSlots == {1, 2}
Idle == [kind |-> "idle"]

IdleM ==
  /\ tviews = [t \in Threads |-> [i \in ThreadSlots |-> EmptyView(0)]]
  /\ tlive = [t \in Threads |-> {}]
  /\ tpc = [t \in Threads |-> Idle]

Init == InitL /\ IdleT /\ IdleM

\* NArray(): an empty array of arity N
DefaultConstruct(N) ==
  /\ FreeSlots # {}
  /\ views' = [views EXCEPT ![NewSlot] = EmptyView(N)]
  /\ live' = live \cup {NewSlot}
  /\ op' = NoCall
  /\ UNCHANGED <<use_count, released, nblocks, mem, ncalls, varsT, varsM>>

\* NArray(size): throws on an invalid size, else allocates size(size) default elements
Construct(sz) ==
  /\ FreeSlots # {}
  /\ IF ~validSize(sz)
     THEN /\ op' = Threw(sz)
          /\ UNCHANGED <<views, live, use_count, released, nblocks, mem, ncalls, varsT, varsM>>
     ELSE /\ nblocks + 1 \in Blocks
          /\ size(sz) <= BlockSpan
          /\ LET b == nblocks + 1
                 blk == NArrayDataBlock(b, size(sz))
             IN /\ views' = [views EXCEPT ![NewSlot] = View(blk.data, sz, step(sz))]
                /\ use_count' = [use_count EXCEPT ![b] = 1]
                /\ mem' = [mem EXCEPT ![b] = blk.elems]
                /\ nblocks' = b
          /\ live' = live \cup {NewSlot}
          /\ op' = NoCall
          /\ UNCHANGED <<released, ncalls, varsT, varsM>>

\* NArray(const NArray& arr)
CopyConstruct(i) ==
  /\ i \in live /\ FreeSlots # {}
  /\ views' = [views EXCEPT ![NewSlot] = views[i]]
  /\ live' = live \cup {NewSlot}
  /\ SetHeap(Share(Heap, views[i].data_))
  /\ op' = NoCall
  /\ UNCHANGED <<nblocks, ncalls, varsT, varsM>>

\* NArray(NArray&& arr): data_(arr.data_), then arr.clear()
MoveConstruct(i) ==
  /\ i \in live /\ FreeSlots # {}
  /\ views' = [views EXCEPT ![NewSlot] = views[i], ![i] = clear(views[i])]
  /\ live' = live \cup {NewSlot}
  /\ SetHeap(Drop(Share(Heap, views[i].data_), views[i].data_))
  /\ op' = NoCall
  /\ UNCHANGED <<nblocks, ncalls, varsT, varsM>>

\* operator=(const NArray& arr): data_ = arr.data_ takes the new owner, drops the old
CopyAssign(i, j) ==
  /\ i \in live /\ j \in live /\ Dim(views[i]) = Dim(views[j])
  /\ views' = [views EXCEPT ![j] = views[i]]
  /\ SetHeap(Drop(Share(Heap, views[i].data_), views[j].data_))
  /\ op' = NoCall
  /\ UNCHANGED <<live, nblocks, ncalls, varsT, varsM>>

\* operator=(NArray&& arr): the copy assignment, then arr.clear()
MoveAssign(i, j) ==
  /\ i \in live /\ j \in live /\ Dim(views[i]) = Dim(views[j])
  /\ LET assigned == [views EXCEPT ![j] = views[i]]
         h == Drop(Share(Heap, views[i].data_), views[j].data_)
     IN /\ views' = [assigned EXCEPT ![i] = clear(assigned[i])]
        /\ SetHeap(Drop(h, assigned[i].data_))
  /\ op' = NoCall
  /\ UNCHANGED <<live, nblocks, ncalls, varsT, varsM>>

\* clear()
Clear(i) ==
  /\ i \in live
  /\ views' = [views EXCEPT ![i] = clear(views[i])]
  /\ SetHeap(Drop(Heap, views[i].data_))
  /\ op' = NoCall
  /\ UNCHANGED <<live, nblocks, ncalls, varsT, varsM>>

\* ~NArray(): the members are destroyed, data_ drops its owner
Destroy(i) ==
  /\ i \in live
  /\ views' = [views EXCEPT ![i] = EmptyView(0)]
  /\ live' = live \ {i}
  /\ SetHeap(Drop(Heap, views[i].data_))
  /\ op' = NoCall
  /\ UNCHANGED <<nblocks, ncalls, varsT, varsM>>

\* A transformation call on the object in slot i with outcome r.  A thrown exception
\* leaves the program as it was.  A returned element reference (arity 0, the
\* NArray<T, 0> temporary is gone when the call returns) leaves every object as it
\* was; a returned view is a new object.
Returned(i, r) ==
  /\ i \in live
  /\ IF r.err # "none"
     THEN UNCHANGED vars
     ELSE IF Dim(r.view) = 0
     THEN /\ op' = Call(i, 0)
          /\ SetHeap(Drop(Share(Heap, r.view.data_), r.view.data_))
          /\ UNCHANGED <<views, live, nblocks, ncalls, varsT, varsM>>
     ELSE /\ Dim(r.view) \in Arities
          /\ FreeSlots # {}
          /\ ncalls < MaxCalls
          /\ views' = [views EXCEPT ![NewSlot] = r.view]
          /\ live' = live \cup {NewSlot}
          /\ SetHeap(Share(Heap, r.view.data_))
          /\ op' = Call(i, NewSlot)
          /\ ncalls' = ncalls + 1
          /\ UNCHANGED <<nblocks, varsT, varsM>>

\* the distinct outcomes of each call over the argument sets
Slice(i) ==
  \E r \in {slice(views[i], dim, n) : dim \in Dims, n \in Pos} : Returned(i, r)

Range(i) ==
  \E r \in {range(views[i], dim, start, length) : dim \in Dims, start \in Pos, length \in Pos} :
    Returned(i, r)

Flip(i) == \E r \in {flip(views[i], dim) : dim \in Dims} : Returned(i, r)

Skip(i) ==
  \E r \in {skip(views[i], dim, n, start) : dim \in Dims, n \in Pos, start \in Pos} :
    Returned(i, r)

Transpose(i) ==
  \E r \in {transpose(views[i], dim1, dim2) : dim1 \in Dims, dim2 \in Dims} :
    Returned(i, r)

Subarray(i) ==
  \E r \in {subarray(views[i], loc, sz) :
              loc \in Tuples(Dim(views[i]), 0..1), sz \in Tuples(Dim(views[i]), 0..2)} :
    Returned(i, r)

SubarrayAt(i) ==
  \E M \in 1..Dim(views[i]) :
    \E r \in {subarrayAt(views[i], pos) : pos \in Tuples(M, Pos)} : Returned(i, r)

Reshape(i) ==
  \E M \in Arities :
    \E r \in {reshape(views[i], sz) : sz \in Tuples(M, 0..2)} : Returned(i, r)

Repeat(i) == \E r \in {repeat(views[i], n) : n \in Pos} : Returned(i, r)

Window(i) ==
  \E r \in {window(views[i], dim, n) : dim \in Dims, n \in Pos} : Returned(i, r)

AsAligned(i) == Returned(i, asAligned(views[i]))

AsCondensed(i) == Returned(i, asCondensed(views[i]))

Next ==
  \/ \E N \in Arities : DefaultConstruct(N)
  \/ \E sz \in CtorSizes : Construct(sz)
  \/ \E i \in Slots : CopyConstruct(i)
  \/ \E i \in Slots : MoveConstruct(i)
  \/ \E i \in Slots, j \in Slots : CopyAssign(i, j)
  \/ \E i \in Slots, j \in Slots : MoveAssign(i, j)
  \/ \E i \in Slots : Clear(i)
  \/ \E i \in Slots : Destroy(i)
  \/ \E i \in Slots : Slice(i)
  \/ \E i \in Slots : Range(i)
  \/ \E i \in Slots : Flip(i)
  \/ \E i \in Slots : Skip(i)
  \/ \E i \in Slots : Transpose(i)
  \/ \E i \in Slots : Subarray(i)
  \/ \E i \in Slots : SubarrayAt(i)
  \/ \E i \in Slots : Reshape(i)
  \/ \E i \in Slots : Repeat(i)
  \/ \E i \in Slots : Window(i)
  \/ \E i \in Slots : AsAligned(i)
  \/ \E i \in Slots : AsCondensed(i)

Spec == Init /\ [][Next]_vars

\* ---- the transformations as functions of the receiver and the arguments (SpecT)
\* The receiver cur is a freshly constructed array or the result of a chain of at most
\* MaxDepth transformations of one, or such a view cleared.  A call records its
\* arguments and its outcome; TBind continues with the returned view as the receiver.

\* the sizes NArray(size) is called with
ShapesT == {<<2, 3>>, <<3>>}

\* the arities NArray<T, N> is instantiated for
AritiesT == {1, 2}

\* NArray(size): data_ is the start of a new block, steps_ = detail::step(size)
Fresh(sz) == View(NArrayDataBlock(1, size(sz)).data, sz, step(sz))

RECURSIVE MaxOf(_, _)
MaxOf(p, i) == IF i > Len(p) THEN 0 ELSE LET m == MaxOf(p, i + 1) IN IF p[i] > m THEN p[i] ELSE m

\* argument sets: every valid axis and the first invalid one, every valid position
\* of the longest axis and one value beyond at each end
DimsOf(v) == 0..Dim(v)
PosOf(v) == -1..MaxOf(v.sizes_, 1)
LensOf(v) == 0..MaxOf(v.sizes_, 1)

InitT ==
  /\ views = [i \in Slots |-> EmptyView(0)]
  /\ live = {}
  /\ use_count = [b \in Blocks |-> 0]
  /\ released = [b \in Blocks |-> 0]
  /\ nblocks = 0
  /\ op = NoCall
  /\ ncalls = 0
  /\ IdleM
  /\ \E sz \in ShapesT :
       /\ cur = Fresh(sz)
       /\ mem = [b \in Blocks |-> NArrayDataBlock(b, size(sz)).elems]
  /\ call = NoArgs
  /\ ret = NoRet
  /\ depth = 0

Args(kind, args) == [kind |-> kind, args |-> args]

TCall(kind, args, r) ==
  /\ call = NoArgs
  /\ call' = Args(kind, args)
  /\ ret' = r
  /\ UNCHANGED <<cur, depth, varsL, varsM>>

TSlice == \E dim \in DimsOf(cur), n \in PosOf(cur) : TCall("slice", <<dim, n>>, slice(cur, dim, n))

TRange ==
  \E dim \in DimsOf(cur), start \in PosOf(cur), length \in LensOf(cur) :
    TCall("range", <<dim, start, length>>, range(cur, dim, start, length))

TFlip == \E dim \in DimsOf(cur) : TCall("flip", <<dim>>, flip(cur, dim))

TSkip ==
  \E dim \in DimsOf(cur), n \in LensOf(cur), start \in PosOf(cur) :
    TCall("skip", <<dim, n, start>>, skip(cur, dim, n, start))

TTranspose ==
  \E dim1 \in DimsOf(cur), dim2 \in DimsOf(cur) :
    TCall("transpose", <<dim1, dim2>>, transpose(cur, dim1, dim2))

TSubarray ==
  \E loc \in Tuples(Dim(cur), PosOf(cur) \ {MaxOf(cur.sizes_, 1)}), sz \in Tuples(Dim(cur), LensOf(cur)) :
    TCall("subarray", <<loc, sz>>, subarray(cur, loc, sz))

TWindow ==
  \E dim \in DimsOf(cur), n \in LensOf(cur) \cup {MaxOf(cur.sizes_, 1) + 1} :
    TCall("window", <<dim, n>>, window(cur, dim, n))

TRepeat == \E n \in -1..2 : TCall("repeat", <<n>>, repeat(cur, n))

\* reshape<M>(size): every requested size from 0 to the number of elements
TReshape ==
  \E M \in AritiesT :
    \E sz \in Tuples(M, 0..size(cur.sizes_)) : TCall("reshape", <<sz>>, reshape(cur, sz))

TAsAligned == TCall("asAligned", <<>>, asAligned(cur))

\* the returned view becomes the receiver of the next call
TBind ==
  /\ call # NoArgs
  /\ ret.err = "none"
  /\ Dim(ret.view) \in AritiesT
  /\ depth < MaxDepth
  /\ cur' = ret.view
  /\ depth' = depth + 1
  /\ call' = NoArgs
  /\ ret' = NoRet
  /\ UNCHANGED <<varsL, varsM>>

\* clear() on the receiver
TClear ==
  /\ call = NoArgs
  /\ ~empty(cur)
  /\ cur' = clear(cur)
  /\ UNCHANGED <<call, ret, depth, varsL, varsM>>

NextT ==
  \/ TSlice
  \/ TRange
  \/ TFlip
  \/ TSkip
  \/ TTranspose
  \/ TSubarray
  \/ TWindow
  \/ TRepeat
  \/ TBind
  \/ TClear

SpecT == InitT /\ [][NextT]_vars

\* ---- reshaping and alignment of derived views (SpecR)
\* The receivers are built by the single-axis transformations (subarray is a chain
\* of range calls), by reshape and by asAligned.
\* subarrayAt(pos) with a pos of every arity M < N
TSubarrayAt ==
  \E M \in 1..(Dim(cur) - 1) : \E pos \in Tuples(M, PosOf(cur)) :
    TCall("subarrayAt", <<pos>>, subarrayAt(cur, pos))

TAsCondensed == TCall("asCondensed", <<>>, asCondensed(cur))

NextR ==
  \/ TSlice
  \/ TRange
  \/ TFlip
  \/ TSkip
  \/ TTranspose
  \/ TWindow
  \/ TRepeat
  \/ TReshape
  \/ TAsAligned
  \/ TAsCondensed
  \/ TSubarrayAt
  \/ TBind

SpecR == InitT /\ [][NextR]_vars

\* ---- element-wise operations on the storage (SpecD)
\* mem[1] holds the elements of the array the receiver was derived from, mem[2] those
\* of the second array of a call (the array clone() or convertTo() creates, or the
\* argument arr) and mem[3] those of the mask.  A pointer is (cb, ptr): the element
\* ptr - BlockBase(cb) of storage block cb.

InBlock(m, p) == (p.ptr - BlockBase(p.cb) + 1) \in 1..Len(m[p.cb])

Load(m, p) == m[p.cb][p.ptr - BlockBase(p.cb) + 1]

Stored(m, p, x) == [m EXCEPT ![p.cb][p.ptr - BlockBase(p.cb) + 1] = x]

\* the Converter passed to convertTo
fn(x) == x + x

\* the values written: none of them is an element of the constructed arrays
Vals == {0}

\* detail::unary / binary / ternary<N> (util.hpp): nested loops over the N axes, the
\* first axis outermost, sizes[i] iterations on axis i.  The k-th visit hands the
\* operation the pointer of every operand advanced by its steps.
Walk(sizes, operands) ==
  [k \in 1..size(sizes) |->
    [f \in DOMAIN operands |->
      SharedPtr(operands[f].data_.cb,
                operands[f].data_.ptr + Dot(Unravel(k - 1, sizes), operands[f].steps_, 1))]]

\* faulty variant: the mask is not looked at
ApplyUnmasked(m, o, val, p) ==
  CASE o = "convert" -> Stored(m, p.dst, fn(Load(m, p.src)))
    [] o = "maskedFill" -> Stored(m, p.dst, val)
    [] o = "maskedCopy" -> Stored(m, p.dst, Load(m, p.src))
    [] o = "copy" -> Stored(m, p.dst, Load(m, p.src))
    [] o = "add" -> Stored(m, p.dst, Load(m, p.dst) + Load(m, p.src))
    [] o = "sub" -> Stored(m, p.dst, Load(m, p.dst) - Load(m, p.src))

\* the element operations (the lambdas of convertTo_, setTo(val, mask), setTo(arr, mask),
\* setTo(arr), operator+=(arr), operator-=(arr))
Apply(m, o, val, p) ==
  CASE o = "convert" -> Stored(m, p.dst, fn(Load(m, p.src)))
    [] o = "maskedFill" -> IF Load(m, p.msk) THEN Stored(m, p.dst, val) ELSE m
    [] o = "maskedCopy" -> IF Load(m, p.msk) THEN Stored(m, p.dst, Load(m, p.src)) ELSE m
    [] o = "copy" -> Stored(m, p.dst, Load(m, p.src))
    [] o = "add" -> Stored(m, p.dst, Load(m, p.dst) + Load(m, p.src))
    [] o = "sub" -> Stored(m, p.dst, Load(m, p.dst) - Load(m, p.src))

\* The visits in order.  An access outside the storage block of its pointer is
\* undefined behaviour: the visit is recorded as wild and has no effect on the
\* blocks of the model.
RECURSIVE Each(_, _, _, _, _)
Each(st, o, val, ptrs, k) ==
  IF k > Len(ptrs) THEN st
  ELSE LET p == ptrs[k]
           inside == \A f \in DOMAIN p : InBlock(st.mem, p[f])
       IN Each([mem |-> IF inside THEN Apply(st.mem, o, val, p) ELSE st.mem,
                wild |-> st.wild \/ ~inside], o, val, ptrs, k + 1)

traverse(m, sizes, operands, o, val) ==
  LET ptrs == Walk(sizes, operands)
      st == Each([mem |-> m, wild |-> FALSE], o, val, ptrs, 1)
  IN [mem |-> st.mem, wild |-> st.wild, ptrs |-> ptrs]

\* detail::condense(sizes, step1, step2): i is the source's i, st.j the source's j
RECURSIVE condensePairLoop(_, _)
condensePairLoop(st, i) ==
  IF i < Len(st.sizes)
  THEN IF st.sizes[i + 1] * st.step1[i + 1] = st.step1[i]
       THEN condensePairLoop([st EXCEPT !.sizes[st.j + 1] = @ * st.sizes[i + 1]], i + 1)
       ELSE condensePairLoop([sizes |-> [st.sizes EXCEPT ![st.j + 2] = st.sizes[i + 1]],
                              step1 |-> [st.step1 EXCEPT ![st.j + 1] = st.step1[i]],
                              step2 |-> [st.step2 EXCEPT ![st.j + 1] = st.step2[i]],
                              j |-> st.j + 1], i + 1)
  ELSE st

\* faulty variant: the steps of the second array are left as they were
condensePairFirstOnly(sizes, step1, step2) ==
  LET N == Len(sizes)
      st == condensePairLoop([sizes |-> sizes, step1 |-> step1, step2 |-> step2, j |-> 0], 1)
  IN [sizes |-> st.sizes,
      step1 |-> [st.step1 EXCEPT ![st.j + 1] = st.step1[N]],
      step2 |-> step2,
      n |-> st.j + 1]

\* the arrays keep their N entries; the entries at or after n are left as they are
condensePair(sizes, step1, step2) ==
  LET N == Len(sizes)
      st == condensePairLoop([sizes |-> sizes, step1 |-> step1, step2 |-> step2, j |-> 0], 1)
  IN [sizes |-> st.sizes,
      step1 |-> [st.step1 EXCEPT ![st.j + 1] = st.step1[N]],
      step2 |-> [st.step2 EXCEPT ![st.j + 1] = st.step2[N]],
      n |-> st.j + 1]

\* faulty variant: the copy shares the buffer of the receiver
cloneShared(m, v) == [ret |-> Ok(v), mem |-> m]

\* clone(): NArray(sizes_, gen) on a new block; gen hands out *iter++ from begin()
clone(m, v) ==
  IF empty(v) THEN [ret |-> Ok(EmptyView(Dim(v))), mem |-> m]
  ELSE LET n == size(v.sizes_)
           c == Canonical(v)
       IN [ret |-> Ok(View(NArrayDataBlock(2, n).data, v.sizes_, step(v.sizes_))),
           mem |-> [m EXCEPT ![2] = [k \in 1..n |-> Load(m, SharedPtr(v.data_.cb, c[k]))]]]

\* convertTo_(lhs, rhs, func): the condensed arrays go to binary<N> with all N entries
convertTo_(m, lhs, rhs) ==
  LET c == condensePair(lhs.sizes_, lhs.steps_, rhs.steps_)
  IN traverse(m, c.sizes, [dst |-> View(rhs.data_, c.sizes, c.step2),
                           src |-> View(lhs.data_, c.sizes, c.step1)], "convert", 0)

\* convertTo(func): NArray<U, N> ret(sizes_); convertTo_(*this, ret, func); return ret
convertTo(m, v) ==
  IF ~validSize(v.sizes_) THEN [ret |-> Throw("invalid_argument"), mem |-> m]
  ELSE LET blk == NArrayDataBlock(2, size(v.sizes_))
           res == View(blk.data, v.sizes_, step(v.sizes_))
           t == convertTo_([m EXCEPT ![2] = blk.elems], v, res)
       IN [ret |-> [err |-> "none", view |-> res, ptrs |-> t.ptrs, wild |-> t.wild],
           mem |-> t.mem]

\* setTo(arr, mask)
setToArr(m, v, arr, mask) ==
  IF v.sizes_ # arr.sizes_ \/ v.sizes_ # mask.sizes_
  THEN [ret |-> Throw("invalid_argument"), mem |-> m]
  ELSE [ret |-> [err |-> "void"],
        mem |-> traverse(m, v.sizes_, [dst |-> v, src |-> arr, msk |-> mask], "maskedCopy", 0).mem]

\* setTo(arr) (o = "copy"), operator+=(arr) ("add"), operator-=(arr) ("sub"); the
\* operators return on an empty receiver before the traversal, which visits nothing
binaryArr(m, v, arr, o) ==
  IF v.sizes_ # arr.sizes_ THEN [ret |-> Throw("invalid_argument"), mem |-> m]
  ELSE [ret |-> [err |-> "void"],
        mem |-> traverse(m, v.sizes_, [dst |-> v, src |-> arr], o, 0).mem]

\* setTo(val, mask): the sizes of the mask are not compared with sizes_
setToVal(m, v, val, mask) ==
  [ret |-> [err |-> "void"],
   mem |-> traverse(m, v.sizes_, [dst |-> v, msk |-> mask], "maskedFill", val).mem]

\* an array of the receiver's shape whose elements are 1, 2, ... in canonical order
InitD ==
  /\ IdleM
  /\ views = [i \in Slots |-> EmptyView(0)]
  /\ live = {}
  /\ use_count = [b \in Blocks |-> 0]
  /\ released = [b \in Blocks |-> 0]
  /\ nblocks = 0
  /\ op = NoCall
  /\ ncalls = 0
  /\ \E sz \in ShapesT :
       /\ cur = Fresh(sz)
       /\ mem = <<[k \in 1..size(sz) |-> k], <<>>, <<>>>>
  /\ call = NoArgs
  /\ ret = NoRet
  /\ depth = 0

\* a call that reads or writes elements: the outcome r and the storage after it
DCall(kind, args, r) ==
  /\ call' = Args(kind, args)
  /\ ret' = r.ret
  /\ mem' = r.mem
  /\ UNCHANGED <<cur, depth, views, live, use_count, released, nblocks, op, ncalls, varsM>>

DClone ==
  /\ call = NoArgs
  /\ Len(mem[2]) = 0
  /\ DCall("clone", <<>>, clone(mem, cur))

\* a traversal that left its blocks either crashes or returns
DConvertTo ==
  /\ call = NoArgs
  /\ Len(mem[2]) = 0
  /\ LET r == convertTo(mem, cur)
     IN \/ DCall("convertTo", <<>>, r)
        \/ /\ r.ret.err = "none" /\ r.ret.wild
           /\ DCall("convertTo", <<>>, [r EXCEPT !.ret.err = "crash"])

\* original.at(loc) = val or clone.at(loc) = val after clone()
DAssign ==
  /\ call.kind = "clone"
  /\ ret.err = "none"
  /\ \E through \in {cur, ret.view}, loc \in Locs(cur.sizes_), val \in Vals :
       DCall("assign", <<through, loc, val>>,
             [ret |-> ret,
              mem |-> Stored(mem, SharedPtr(through.data_.cb, atUnchecked(through, loc)), val)])

\* sizes that differ from those of v: the first axis is one longer
Longer(v) == [v.sizes_ EXCEPT ![1] = @ + 1]

\* the mask: a constructed array of the receiver's shape with any elements, or one
\* with a longer first axis whose elements are all true
MasksOf(v) ==
  {[view |-> View(NArrayDataBlock(3, size(v.sizes_)).data, v.sizes_, step(v.sizes_)),
    elems |-> bits] : bits \in [1..size(v.sizes_) -> BOOLEAN]}
  \cup {[view |-> View(NArrayDataBlock(3, size(Longer(v))).data, Longer(v), step(Longer(v))),
          elems |-> [k \in 1..size(Longer(v)) |-> TRUE]]}

\* the argument arr: a constructed array of the receiver's shape, or one with a
\* longer first axis, with elements -1, -2, ..., the receiver flipped, or the
\* receiver transposed
ArrsOf(v) ==
  {[view |-> View(NArrayDataBlock(2, size(sz)).data, sz, step(sz)),
    elems |-> [k \in 1..size(sz) |-> 0 - k]] : sz \in {v.sizes_, Longer(v)}} \cup
  {
   [view |-> flip(v, 0).view, elems |-> <<>>],
   [view |-> transpose(v, 0, Dim(v) - 1).view, elems |-> <<>>]}

DSetToVal ==
  /\ call = NoArgs
  /\ Len(mem[3]) = 0
  /\ \E val \in Vals, mask \in MasksOf(cur) :
       DCall("setToVal", <<val, mask.view>>,
             setToVal([mem EXCEPT ![3] = mask.elems], cur, val, mask.view))

DSetToArr ==
  /\ call = NoArgs
  /\ Len(mem[2]) = 0
  /\ Len(mem[3]) = 0
  /\ \E arr \in ArrsOf(cur), mask \in MasksOf(cur) :
       DCall("setToArr", <<arr.view, mask.view>>,
             setToArr([mem EXCEPT ![2] = arr.elems, ![3] = mask.elems], cur, arr.view, mask.view))

\* the older header's engine: singleOp2_, binaryOp2_ (lt = FALSE, the loops run
\* while dst != end) and unaryOp2_ (lt = TRUE, while dst < end). ps are the
\* pointers dst, src1, src2 (ps[1] is dst), steps their step arrays, k the axis
\* (from 1); the value is the sequence of pointer tuples op is applied to.
RECURSIVE Op2_(_, _, _, _, _), Op2For(_, _, _, _, _, _)
Op2_(lt, ps, sizes, steps, k) ==
  Op2For(lt, ps, ps[1] + sizes[k] * steps[1][k], sizes, steps, k)

\* its for loop: op (N == 1) or the call for the remaining axes, then the increments
Op2For(lt, ps, end, sizes, steps, k) ==
  IF (IF lt THEN ps[1] < end ELSE ps[1] # end)
  THEN (IF k = Len(sizes) THEN <<ps>> ELSE Op2_(lt, ps, sizes, steps, k + 1))
       \o Op2For(lt, [a \in DOMAIN ps |-> ps[a] + steps[a][k]], end, sizes, steps, k)
  ELSE <<>>

\* foreach(op) (singleOp2_), operator+=(arr) (unaryOp2_) and setTo(arr, mask)
\* (binaryOp2_) of the older header on the receiver and arguments of its sizes
DOp2 ==
  /\ call = NoArgs
  /\ ~empty(cur)
  /\ \E arr \in {a.view : a \in ArrsOf(cur)}, mask \in {a.view : a \in MasksOf(cur)} :
       /\ arr.sizes_ = cur.sizes_ /\ mask.sizes_ = cur.sizes_
       /\ \E e \in {<<"singleOp2_", <<>>, FALSE>>, <<"unaryOp2_", <<arr>>, TRUE>>,
                    <<"binaryOp2_", <<arr, mask>>, FALSE>>} :
            LET operands == <<cur>> \o e[2]
            IN DCall(e[1], e[2],
                     [ret |-> [err |-> "void",
                               ptrs |-> Op2_(e[3], [a \in DOMAIN operands |-> operands[a].data_.ptr],
                                             cur.sizes_,
                                             [a \in DOMAIN operands |-> operands[a].steps_], 1)],
                      mem |-> mem])

\* setTo(arr), operator+=(arr), operator-=(arr)
DBinaryArr ==
  /\ call = NoArgs
  /\ Len(mem[2]) = 0
  /\ \E arr \in ArrsOf(cur), o \in {"copy", "add", "sub"} :
       DCall(o, <<arr.view>>, binaryArr([mem EXCEPT ![2] = arr.elems], cur, arr.view, o))

\* the receivers of the element-wise calls are views of the constructed array
NextD ==
  \/ TSlice
  \/ TRange
  \/ TFlip
  \/ TSkip
  \/ TTranspose
  \/ TRepeat
  \/ (call.kind \notin {"clone", "convertTo", "assign"} /\ TBind)
  \/ DClone
  \/ DConvertTo
  \/ DAssign
  \/ DSetToVal
  \/ DSetToArr
  \/ DBinaryArr
  \/ DOp2

SpecD == InitD /\ [][NextD]_vars

\* ---- functions of a view and its elements (SpecP)
\* The constructed array holds any elements 0..MaxVal; the receiver is the array or
\* a view derived from it.

\* median (older header): the scan 'while (*ptrs[a] < *x) ++a' (d = 1) or
\* 'while (*ptrs[b] > *x) --b' (d = -1) from index i (from 0) of the n pointers p.
\* A read outside ptrs, or through an entry foreach never wrote, is recorded as wild.
RECURSIVE medianScan(_, _, _, _, _, _)
medianScan(m, cb, p, i, x, d) ==
  IF i \notin 0..(Len(p) - 1) \/ p[i + 1] = Null THEN [i |-> i, wild |-> TRUE]
  ELSE LET val == Load(m, SharedPtr(cb, p[i + 1]))
       IN IF (IF d = 1 THEN val < x ELSE val > x)
          THEN medianScan(m, cb, p, i + d, x, d)
          ELSE [i |-> i, wild |-> FALSE]

\* its 'while (true)' loop: scan up, scan down, leave if a > b, else swap and step
RECURSIVE medianPartition(_, _, _, _, _, _)
medianPartition(m, cb, p, a, b, x) ==
  LET u == medianScan(m, cb, p, a, x, 1)
      w == medianScan(m, cb, p, b, x, -1)
  IN IF u.wild \/ w.wild THEN [p |-> p, a |-> u.i, b |-> w.i, wild |-> TRUE]
     ELSE IF u.i > w.i THEN [p |-> p, a |-> u.i, b |-> w.i, wild |-> FALSE]
     ELSE medianPartition(m, cb, swapped(p, u.i, w.i), u.i + 1, w.i - 1, x)

\* its 'while (A < B)' loop with the pivot x = ptrs[n/2]
RECURSIVE medianSelect(_, _, _, _, _)
medianSelect(m, cb, p, A, B) ==
  IF ~(A < B) THEN [p |-> p, wild |-> FALSE]
  ELSE IF p[Len(p) \div 2 + 1] = Null THEN [p |-> p, wild |-> TRUE]
  ELSE LET r == medianPartition(m, cb, p, A, B, Load(m, SharedPtr(cb, p[Len(p) \div 2 + 1])))
       IN IF r.wild THEN [p |-> r.p, wild |-> TRUE]
          ELSE medianSelect(m, cb, r.p, IF r.b < Len(p) \div 2 THEN r.a ELSE A,
                            IF r.a > Len(p) \div 2 THEN r.b ELSE B)

\* median(src): ptrs[i] is the i-th element foreach (singleOp2_) visits, the other
\* entries of new const T*[n] are never written
median(m, v) ==
  LET n == size(v.sizes_)
      visits == Op2_(FALSE, <<v.data_.ptr>>, v.sizes_, <<v.steps_>>, 1)
      ptrs == [i \in 1..n |-> IF i <= Len(visits) THEN visits[i][1] ELSE Null]
      r == medianSelect(m, v.data_.cb, ptrs, 0, n - 1)
  IN IF r.wild \/ r.p[n \div 2 + 1] = Null THEN [wild |-> TRUE]
     ELSE [wild |-> FALSE, val |-> Load(m, SharedPtr(v.data_.cb, r.p[n \div 2 + 1]))]

\* the Compressor passed to compress: the sum of the elements of the sub-view
func(m, v) ==
  LET c == Canonical(v)
      RECURSIVE SumFrom(_)
      SumFrom(k) == IF k > Len(c) THEN 0 ELSE Load(m, SharedPtr(v.data_.cb, c[k])) + SumFrom(k + 1)
  IN SumFrom(1)

\* faulty variant: the result is sized to the trailing M axes
compressLow(m, v, M) ==
  LET lead == SubSeq(v.sizes_, 1, M)
      r == Fresh(low(v.sizes_, M))
      res == View(SharedPtr(2, BlockBase(2)), r.sizes_, r.steps_)
      subs == [k \in 1..size(lead) |-> subarrayAtUnchecked(v, Unravel(k - 1, lead))]
  IN [ret |-> [err |-> "none", view |-> res, subs |-> subs,
               ptrs |-> [k \in 1..size(lead) |-> res.data_.ptr + k - 1],
               wild |-> size(lead) > size(res.sizes_)],
      mem |-> [m EXCEPT ![2] = [k \in 1..size(res.sizes_) |->
                                  IF k <= size(lead) THEN func(m, subs[k]) ELSE 0]]]

\* compress<M>(func): the result (sizes_.high<M>()) on a new block; the loop over
\* subarrays<N-M>() visits the sub-view at every position of the M leading axes in
\* canonical order (SubNArrays: begin() to the position with pos[0] = size(0)) and
\* assigns func(val) through dstIt, which starts at ret.begin() and steps once per
\* sub-view; a step past the last element of the result is recorded as wild.
compress(m, v, M) ==
  IF empty(v)
  THEN [ret |-> [err |-> "none", view |-> EmptyView(M), subs |-> <<>>, ptrs |-> <<>>, wild |-> FALSE],
        mem |-> m]
  ELSE LET lead == SubSeq(v.sizes_, 1, M)
           rsz == high(v.sizes_, M)
           res == View(NArrayDataBlock(2, size(rsz)).data, rsz, step(rsz))
           subs == [k \in 1..size(lead) |-> subarrayAtUnchecked(v, Unravel(k - 1, lead))]
       IN [ret |-> [err |-> "none", view |-> res, subs |-> subs,
                    ptrs |-> [k \in 1..size(lead) |->
                               IF k <= size(rsz) THEN Canonical(res)[k] ELSE res.data_.ptr + k - 1],
                    wild |-> size(lead) > size(rsz)],
           mem |-> [m EXCEPT ![2] = [k \in 1..size(rsz) |->
                                       IF k <= size(lead) THEN func(m, subs[k]) ELSE 0]]]

\* an array of 2, 4, 2 x 2 or 2 x 2 x 1 elements with any values
InitP ==
  /\ IdleM
  /\ views = [i \in Slots |-> EmptyView(0)]
  /\ live = {}
  /\ use_count = [b \in Blocks |-> 0]
  /\ released = [b \in Blocks |-> 0]
  /\ nblocks = 0
  /\ op = NoCall
  /\ ncalls = 0
  /\ \E sz \in {<<2>>, <<4>>, <<2, 2>>, <<2, 2, 1>>} :
       /\ cur = Fresh(sz)
       /\ \E elems \in [1..size(sz) -> 0..MaxVal] : mem = <<elems, <<>>, <<>>>>
  /\ call = NoArgs
  /\ ret = NoRet
  /\ depth = 0

\* median(cur): a wild read is undefined behaviour, after which the call crashes or
\* returns any value
PMedian ==
  /\ call = NoArgs
  /\ ~empty(cur)
  /\ LET r == median(mem, cur)
     IN \E out \in (IF r.wild THEN {Throw("crash")} \cup {[err |-> "value", val |-> x] : x \in 0..MaxVal}
                    ELSE {[err |-> "value", val |-> r.val]}) :
          TCall("median", <<>>, out)

\* compress<M>(func) with 0 < M < N
PCompress ==
  /\ call = NoArgs
  /\ Len(mem[2]) = 0
  /\ \E M \in 1..(Dim(cur) - 1) : DCall("compress", <<M>>, compress(mem, cur, M))

NextP ==
  \/ TFlip
  \/ TSubarrayAt
  \/ TTranspose
  \/ TRepeat
  \/ (call.kind # "compress" /\ TBind)
  \/ PMedian
  \/ PCompress

SpecP == InitP /\ [][NextP]_vars

\* ---- condensing sizes and steps (SpecC)
\* NArray(data, sizes, steps) constructs a view with any sizes > 0 and any steps,
\* here one to three axes of at most two or three elements and steps -1..MaxVal.
InitC ==
  /\ IdleM
  /\ views = [i \in Slots |-> EmptyView(0)]
  /\ live = {}
  /\ use_count = [b \in Blocks |-> 0]
  /\ released = [b \in Blocks |-> 0]
  /\ nblocks = 0
  /\ op = NoCall
  /\ ncalls = 0
  /\ mem = <<<<>>, <<>>, <<>>>>
  /\ \E N \in 1..3 :
       \E sz \in Tuples(N, 1..(IF N = 3 THEN 2 ELSE 3)), st \in Tuples(N, -1..MaxVal) :
         cur = View(SharedPtr(1, BlockBase(1)), sz, st)
  /\ call = NoArgs
  /\ ret = NoRet
  /\ depth = 0

\* detail::condense(sizes, step1, step2) on the sizes and steps of cur and the steps
\* step2 of a second array of the same sizes
PCondense ==
  \E step2 \in Tuples(Dim(cur), -1..MaxVal) :
    TCall("condense", <<cur.sizes_, cur.steps_, step2>>,
          [err |-> "value", c |-> condensePair(cur.sizes_, cur.steps_, step2)])

NextC ==
  \/ TAsCondensed
  \/ PCondense

SpecC == InitC /\ [][NextC]_vars

\* ---- threads that own views of one buffer (SpecMT)
\* Every thread owns its NArray objects; no object is shared.  The objects share the
\* control block of the buffer, whose use count std::shared_ptr changes by atomic
\* read-modify-write operations: one step each.  The thread whose decrement reaches
\* zero deletes the storage in a later step of its own.

\* an array of two elements was constructed and every thread was handed a copy
InitM ==
  /\ views = [i \in Slots |-> EmptyView(0)]
  /\ live = {}
  /\ op = NoCall
  /\ ncalls = 0
  /\ nblocks = 1
  /\ use_count = [b \in Blocks |-> MaxThreads]
  /\ released = [b \in Blocks |-> 0]
  /\ mem = [b \in Blocks |-> NArrayDataBlock(b, size(<<2>>)).elems]
  /\ tviews = [t \in Threads |-> [i \in ThreadSlots |-> IF i = 1 THEN Fresh(<<2>>) ELSE EmptyView(0)]]
  /\ tlive = [t \in Threads |-> {1}]
  /\ tpc = [t \in Threads |-> Idle]
  /\ IdleT

FreeOf(t) == ThreadSlots \ tlive[t]
NewOf(t) == CHOOSE j \in FreeOf(t) : \A k \in FreeOf(t) : j <= k

\* what is left to do after the use count was decremented for sp
AfterRelease(sp) == IF Disposed(use_count, sp) THEN [kind |-> "dispose", cb |-> sp.cb] ELSE Idle

\* the transformations a thread applies
TransformsM(v) == {flip(v, 0), range(v, 0, 1, 1)}

\* NArray(const NArray&) of the thread's own object i
MTCopyConstruct(t, i) ==
  /\ tpc[t] = Idle /\ i \in tlive[t] /\ FreeOf(t) # {}
  /\ tviews' = [tviews EXCEPT ![t][NewOf(t)] = tviews[t][i]]
  /\ tlive' = [tlive EXCEPT ![t] = @ \cup {NewOf(t)}]
  /\ use_count' = Acquire(use_count, tviews[t][i].data_)
  /\ UNCHANGED <<tpc, released, mem, nblocks, views, live, op, ncalls, varsT>>

\* a transformation of the thread's own object i that returns a view
MTTransform(t, i) ==
  /\ tpc[t] = Idle /\ i \in tlive[t] /\ FreeOf(t) # {}
  /\ \E r \in TransformsM(tviews[t][i]) :
       /\ r.err = "none"
       /\ tviews' = [tviews EXCEPT ![t][NewOf(t)] = r.view]
       /\ use_count' = Acquire(use_count, r.view.data_)
  /\ tlive' = [tlive EXCEPT ![t] = @ \cup {NewOf(t)}]
  /\ UNCHANGED <<tpc, released, mem, nblocks, views, live, op, ncalls, varsT>>

\* NArray(NArray&& arr): data_(arr.data_) now, arr.clear() in the next step
MTMoveConstruct(t, i) ==
  /\ tpc[t] = Idle /\ i \in tlive[t] /\ FreeOf(t) # {}
  /\ tviews' = [tviews EXCEPT ![t][NewOf(t)] = tviews[t][i]]
  /\ tlive' = [tlive EXCEPT ![t] = @ \cup {NewOf(t)}]
  /\ use_count' = Acquire(use_count, tviews[t][i].data_)
  /\ tpc' = [tpc EXCEPT ![t] = [kind |-> "clear", slot |-> i]]
  /\ UNCHANGED <<released, mem, nblocks, views, live, op, ncalls, varsT>>

\* the arr.clear() that ends a move
MTMovedFrom(t) ==
  /\ tpc[t].kind = "clear"
  /\ LET i == tpc[t].slot
     IN /\ tviews' = [tviews EXCEPT ![t][i] = clear(tviews[t][i])]
        /\ use_count' = Release(use_count, tviews[t][i].data_)
        /\ tpc' = [tpc EXCEPT ![t] = AfterRelease(tviews[t][i].data_)]
  /\ UNCHANGED <<tlive, released, mem, nblocks, views, live, op, ncalls, varsT>>

\* clear() of the thread's own object i
MTClear(t, i) ==
  /\ tpc[t] = Idle /\ i \in tlive[t]
  /\ tviews' = [tviews EXCEPT ![t][i] = clear(tviews[t][i])]
  /\ use_count' = Release(use_count, tviews[t][i].data_)
  /\ tpc' = [tpc EXCEPT ![t] = AfterRelease(tviews[t][i].data_)]
  /\ UNCHANGED <<tlive, released, mem, nblocks, views, live, op, ncalls, varsT>>

\* ~NArray() of the thread's own object i
MTDestroy(t, i) ==
  /\ tpc[t] = Idle /\ i \in tlive[t]
  /\ tviews' = [tviews EXCEPT ![t][i] = EmptyView(0)]
  /\ tlive' = [tlive EXCEPT ![t] = @ \ {i}]
  /\ use_count' = Release(use_count, tviews[t][i].data_)
  /\ tpc' = [tpc EXCEPT ![t] = AfterRelease(tviews[t][i].data_)]
  /\ UNCHANGED <<released, mem, nblocks, views, live, op, ncalls, varsT>>

\* the thread whose decrement reached zero deletes the storage
MTDispose(t) ==
  /\ tpc[t].kind = "dispose"
  /\ SetHeap(DeleteBlock(Heap, tpc[t].cb))
  /\ tpc' = [tpc EXCEPT ![t] = Idle]
  /\ UNCHANGED <<tviews, tlive, nblocks, views, live, op, ncalls, varsT>>

NextM ==
  \/ \E t \in Threads, i \in ThreadSlots : MTCopyConstruct(t, i)
  \/ \E t \in Threads, i \in ThreadSlots : MTTransform(t, i)
  \/ \E t \in Threads, i \in ThreadSlots : MTMoveConstruct(t, i)
  \/ \E t \in Threads : MTMovedFrom(t)
  \/ \E t \in Threads, i \in ThreadSlots : MTClear(t, i)
  \/ \E t \in Threads, i \in ThreadSlots : MTDestroy(t, i)
  \/ \E t \in Threads : MTDispose(t)

SpecMT == InitM /\ [][NextM]_vars

\* the objects, of any thread, whose data_ shares ownership of block b
RefsM(b) == {x \in Threads \X ThreadSlots : x[2] \in tlive[x[1]] /\ tviews[x[1]][x[2]].data_.cb = b}

\* the threads that are about to delete the storage of block b
Disposing(b) == {t \in Threads : tpc[t] = [kind |-> "dispose", cb |-> b]}

\* C2: when several threads copy, transform, move, clear and destroy their own views
\* of one buffer, then at every point of every interleaving the use count equals the
\* number of live views that reference the buffer; the storage is deleted at most once
\* and never while a view references it; and once no view references it, it has been
\* deleted or exactly one thread, the one that dropped the last view, is about to.
C2_CountIsLiveViewsReleasedOnce ==
  \A b \in Blocks :
    /\ use_count[b] = Cardinality(RefsM(b))
    /\ released[b] <= 1
    /\ RefsM(b) # {} => released[b] = 0 /\ Disposing(b) = {} /\ Len(mem[b]) > 0
    /\ RefsM(b) = {} => released[b] + Cardinality(Disposing(b)) = 1
    /\ released[b] = 1 => mem[b] = <<>>

\* C2 witness: the storage has been deleted after every thread dropped its views, and
\* each thread still holds objects, now empty, among them ones it constructed itself
C2_ReleasedAfterAllThreadsDropped ==
  /\ \A b \in Blocks : released[b] = 1
  /\ \A t \in Threads : tlive[t] = ThreadSlots /\ tpc[t] = Idle

\* ---- properties of the lifecycle

\* the live objects whose data_ shares ownership of block b
Refs(b) == {i \in live : views[i].data_.cb = b}

\* C1: a buffer is released exactly once, and only when the last view that references
\* it stops referencing it (destroyed, cleared, moved from or assigned over): while any
\* live view references an allocated buffer it has not been released and its elements
\* are still there, and once no live view references it, it has been released once.
C1_ReleasedOnceWhenLastViewGone ==
  \A b \in Blocks :
    /\ released[b] <= 1
    /\ b > nblocks => released[b] = 0 /\ Refs(b) = {}
    /\ (b <= nblocks /\ Refs(b) # {}) => released[b] = 0 /\ Len(mem[b]) > 0
    /\ (b <= nblocks /\ Refs(b) = {}) => released[b] = 1 /\ mem[b] = <<>>

\* C1 witness: a sub-view on part of the buffer is the only reference left after its
\* parent was cleared, and the buffer is still there
C1_SubViewOutlivesParent ==
  \E i \in live, j \in live :
    /\ i # j
    /\ empty(views[j]) /\ Dim(views[j]) > 0
    /\ ~empty(views[i])
    /\ size(views[i].sizes_) < Len(mem[views[i].data_.cb])
    /\ use_count[views[i].data_.cb] = 1
    /\ released[views[i].data_.cb] = 0

\* C3: every live view is either empty (no buffer reference, every size and every step
\* zero) or references a buffer and has every size positive.
C3_EmptyOrAllSizesPositive ==
  \A i \in live :
    LET v == views[i]
    IN \/ /\ v.data_ = SharedPtr(0, Null)
          /\ v.sizes_ = PointZero(Dim(v))
          /\ v.steps_ = PointZero(Dim(v))
       \/ /\ v.data_.cb # 0 /\ v.data_.ptr # Null
          /\ \A k \in 1..Dim(v) : v.sizes_[k] > 0

\* C3 witness: a moved-from or cleared view next to a view returned by a
\* transformation that steps backwards through the buffer
C3_EmptyBesideDerived ==
  \E i \in live, j \in live :
    /\ empty(views[i]) /\ Dim(views[i]) > 0
    /\ ~empty(views[j])
    /\ \E k \in 1..Dim(views[j]) : views[j].steps_[k] < 0

\* C4: a transformation call that returns leaves its source (and every other existing
\* object) as it was, leaves the buffer elements as they were, allocates and releases
\* nothing, and a returned view references the source's buffer, whose reference count
\* is one higher than before the call.
C4_TransformationFrame ==
  [][op'.src # 0 =>
       LET s == op'.src
           d == op'.dst
       IN /\ s \in live
          /\ \A j \in live : views'[j] = views[j]
          /\ mem' = mem /\ nblocks' = nblocks /\ released' = released
          /\ IF d = 0
             THEN live' = live /\ use_count' = use_count
             ELSE /\ d \notin live /\ live' = live \cup {d}
                  /\ views'[d].data_.cb = views[s].data_.cb
                  /\ \A b \in Blocks :
                       use_count'[b] = use_count[b] + (IF b = views[s].data_.cb THEN 1 ELSE 0)]_vars

\* C4 witness: a transformation has returned a view that shares the buffer of its
\* source, which is still alive; the buffer has two owners
C4_ViewReturned ==
  /\ op # NoCall /\ op.dst # 0
  /\ op.src \in live /\ op.dst \in live
  /\ views[op.dst].data_.cb = views[op.src].data_.cb
  /\ views[op.dst].data_.cb # 0
  /\ use_count[views[op.dst].data_.cb] = 2

\* ---- properties of the transformations

\* q is a valid location of res, loc one of the receiver, and both are the same element
\* of the same buffer
SameElement(res, q, loc) ==
  /\ res.data_.cb = cur.data_.cb
  /\ at(res, q).err = "none"
  /\ at(res, q) = at(cur, loc)

\* C5: on a non-empty view, slice(dim, n) with dim < N and 0 <= n < sizes[dim] returns
\* an (N-1)-dimensional view whose sizes and steps are the receiver's without axis dim
\* and whose element at q is the receiver's element at q with n inserted at axis dim;
\* with dim >= N or n outside that range it throws out_of_range.
C5_SliceFixesAxis ==
  call.kind = "slice" /\ ~empty(cur) =>
    LET dim == call.args[1]
        n == call.args[2]
        N == Dim(cur)
    IN IF dim < N /\ 0 <= n /\ n < cur.sizes_[dim + 1]
       THEN /\ ret.err = "none"
            /\ Dim(ret.view) = N - 1
            /\ Len(ret.view.steps_) = N - 1
            /\ \A k \in 1..(N - 1) :
                 /\ ret.view.sizes_[k] = cur.sizes_[IF k <= dim THEN k ELSE k + 1]
                 /\ ret.view.steps_[k] = cur.steps_[IF k <= dim THEN k ELSE k + 1]
            /\ \A q \in Locs(ret.view.sizes_) : SameElement(ret.view, q, inserted(q, dim, n))
       ELSE ret.err = "out_of_range"

\* C5 witness: a slice at a position past the first of a two-dimensional view that was
\* itself returned by a transformation and has a negative step
C5_SliceOfFlipped ==
  /\ call.kind = "slice" /\ ret.err = "none"
  /\ depth >= 1 /\ Dim(cur) = 2
  /\ call.args[2] >= 1
  /\ \E k \in 1..2 : cur.steps_[k] < 0

\* range(i, loc[i], size[i]) applied to axis i, i + 1, ... in turn
RECURSIVE ChainRange(_, _, _, _)
ChainRange(v, loc, sz, i) ==
  IF i = Dim(v) THEN Ok(v)
  ELSE LET r == range(v, i, loc[i + 1], sz[i + 1])
       IN IF r.err # "none" THEN r ELSE ChainRange(r.view, loc, sz, i + 1)

\* C6: with size[i] > 0, 0 <= loc[i] and loc[i] + size[i] <= sizes[i] on every axis,
\* subarray(loc, size) returns a view with sizes = size and the receiver's steps whose
\* element at p is the receiver's element at loc + p, and that view is the one the
\* chain of range(i, loc[i], size[i]) over every axis returns.
C6_SubarrayIsChainedRange ==
  call.kind = "subarray" =>
    LET loc == call.args[1]
        sz == call.args[2]
        N == Dim(cur)
    IN (\A i \in 1..N : sz[i] > 0 /\ 0 <= loc[i] /\ loc[i] + sz[i] <= cur.sizes_[i]) =>
         /\ ret.err = "none"
         /\ ret.view.sizes_ = sz
         /\ ret.view.steps_ = cur.steps_
         /\ \A p \in Locs(sz) : SameElement(ret.view, p, [i \in 1..N |-> loc[i] + p[i]])
         /\ ChainRange(cur, loc, sz, 0) = ret

\* C6 witness: a subarray of several elements that starts past the first position on
\* every axis of a two-dimensional view
C6_InteriorSubarray ==
  /\ call.kind = "subarray" /\ ret.err = "none"
  /\ Dim(cur) = 2
  /\ \A i \in 1..2 : call.args[1][i] >= 1
  /\ size(call.args[2]) >= 2

\* the example of the class comment: on a {4, 3, 2} array,
\* rangeX(1, 3).flipY().transpose(1, 2) has sizes {3, 2, 3} and steps {6, 1, -2}
ClassCommentExample ==
  LET a == Fresh(<<4, 3, 2>>)
      r1 == range(a, 0, 1, 3)
      r2 == flip(r1.view, 1)
      r3 == transpose(r2.view, 1, 2)
  IN /\ a.steps_ = <<6, 2, 1>>
     /\ r3.err = "none"
     /\ r3.view.sizes_ = <<3, 2, 3>>
     /\ r3.view.steps_ = <<6, 1, -2>>

\* C7: on a non-empty view, flip(dim) with dim < N returns a view with the same sizes
\* whose element at loc is the receiver's element at loc with loc[dim] replaced by
\* sizes[dim] - 1 - loc[dim]; flip(dim) of the result has the receiver's base, sizes
\* and steps.  The example of the class comment gives the stated sizes and steps.
C7_FlipMirrorsAxis ==
  /\ ClassCommentExample
  /\ call.kind = "flip" /\ ~empty(cur) /\ call.args[1] < Dim(cur) =>
       LET dim == call.args[1]
       IN /\ ret.err = "none"
          /\ ret.view.sizes_ = cur.sizes_
          /\ \A loc \in Locs(cur.sizes_) :
               SameElement(ret.view, loc,
                           [loc EXCEPT ![dim + 1] = cur.sizes_[dim + 1] - 1 - loc[dim + 1]])
          /\ flip(ret.view, dim) = Ok(cur)

\* C7 witness: flip along an axis of several elements of a view that was itself
\* returned by a transformation
C7_FlipOfDerived ==
  /\ call.kind = "flip" /\ ret.err = "none"
  /\ ~empty(cur) /\ depth >= 1
  /\ cur.sizes_[call.args[1] + 1] >= 2
  /\ ret.view.data_.ptr # cur.data_.ptr

\* C8: transpose(d1, d2) with d1, d2 < N returns a view with the receiver's base whose
\* sizes and steps are the receiver's with entries d1 and d2 swapped, whose element at
\* loc is the receiver's element at loc with entries d1 and d2 swapped; transpose(d1, d2)
\* of the result has the receiver's sizes and steps.
C8_TransposeSwapsAxes ==
  call.kind = "transpose" /\ call.args[1] < Dim(cur) /\ call.args[2] < Dim(cur) =>
    LET d1 == call.args[1]
        d2 == call.args[2]
        other(k) == IF k = d1 + 1 THEN d2 + 1 ELSE IF k = d2 + 1 THEN d1 + 1 ELSE k
    IN /\ ret.err = "none"
       /\ ret.view.data_ = cur.data_
       /\ Dim(ret.view) = Dim(cur)
       /\ \A k \in 1..Dim(cur) :
            /\ ret.view.sizes_[k] = cur.sizes_[other(k)]
            /\ ret.view.steps_[k] = cur.steps_[other(k)]
       /\ \A loc \in Locs(ret.view.sizes_) :
            SameElement(ret.view, loc, [k \in 1..Dim(cur) |-> loc[other(k)]])
       /\ transpose(ret.view, d1, d2).err = "none"
       /\ transpose(ret.view, d1, d2).view.sizes_ = cur.sizes_
       /\ transpose(ret.view, d1, d2).view.steps_ = cur.steps_

\* C8 witness: two different axes of different lengths are transposed
C8_TransposeOfOblong ==
  /\ call.kind = "transpose" /\ ret.err = "none"
  /\ ~empty(cur)
  /\ call.args[1] # call.args[2]
  /\ cur.sizes_[call.args[1] + 1] # cur.sizes_[call.args[2] + 1]

\* the least m with m * n >= a, for a >= 0 and n >= 1
CeilDiv(a, n) == CHOOSE m \in 0..a : m * n >= a /\ (m - 1) * n < a

\* what skip(dim, n, start) is to return: base advanced by start * steps[dim],
\* sizes[dim] = ceil((sizes[dim] - start) / n), steps[dim] multiplied by n, the other
\* axes as they were, and index k along dim is the receiver's index start + k * n,
\* which is within the receiver's bounds
SkipResult(dim, n, start) ==
  /\ ret.err = "none"
  /\ ret.view.data_ = Alias(cur, cur.data_.ptr + start * cur.steps_[dim + 1])
  /\ Dim(ret.view) = Dim(cur)
  /\ ret.view.sizes_[dim + 1] = CeilDiv(cur.sizes_[dim + 1] - start, n)
  /\ ret.view.steps_[dim + 1] = cur.steps_[dim + 1] * n
  /\ \A k \in 1..Dim(cur) \ {dim + 1} :
       ret.view.sizes_[k] = cur.sizes_[k] /\ ret.view.steps_[k] = cur.steps_[k]
  /\ \A q \in Locs(ret.view.sizes_) :
       SameElement(ret.view, q, [q EXCEPT ![dim + 1] = start + q[dim + 1] * n])

\* skipX(n = 2, start = 0) on an axis of size 10: size 5, step multiplied by 2
SkipExample ==
  LET a == Fresh(<<10>>)
      r == skip(a, 0, 2, 0)
  IN r.err = "none" /\ r.view.sizes_ = <<5>> /\ r.view.steps_ = <<2 * a.steps_[1]>>

\* C9 as stated: for every dim < N, every n >= 1 and every start with
\* 0 <= start < sizes[dim], skip(dim, n, start) succeeds with the result above.
C9_SkipEveryN ==
  call.kind = "skip" /\ call.args[1] < Dim(cur) =>
    LET dim == call.args[1]
        n == call.args[2]
        start == call.args[3]
    IN (n >= 1 /\ 0 <= start /\ start < cur.sizes_[dim + 1]) => SkipResult(dim, n, start)

\* C9, amended: for every dim < N, every n with 1 <= n < sizes[dim] and every start with
\* 0 <= start < sizes[dim], skip(dim, n, start) succeeds with the result above; with
\* n >= sizes[dim] it throws out_of_range.  The example on an axis of size 10 holds.
C9_SkipBelowAxisLength ==
  /\ SkipExample
  /\ call.kind = "skip" /\ call.args[1] < Dim(cur) =>
       LET dim == call.args[1]
           n == call.args[2]
           start == call.args[3]
       IN /\ (n >= 1 /\ n < cur.sizes_[dim + 1] /\ 0 <= start /\ start < cur.sizes_[dim + 1])
               => SkipResult(dim, n, start)
          /\ n >= cur.sizes_[dim + 1] => ret.err = "out_of_range"

\* C9 witness: skip with n = 2 from a start past the first position succeeds
C9_SkipByTwo ==
  /\ call.kind = "skip" /\ ret.err = "none"
  /\ call.args[2] >= 2 /\ call.args[3] >= 1
  /\ ret.view.steps_[call.args[1] + 1] = 2 * cur.steps_[call.args[1] + 1]

C11_RepeatAddsAxis ==
  call.kind = "repeat" =>
    LET n == call.args[1]
        N == Dim(cur)
    IN IF empty(cur) THEN ret = Throw("domain_error")
       ELSE IF n <= 0 THEN ret = Throw("invalid_argument")
       ELSE /\ ret.err = "none"
            /\ ret.view.data_ = cur.data_
            /\ ret.view.sizes_ = Append(cur.sizes_, n)
            /\ ret.view.steps_ = Append(cur.steps_, 0)
            /\ \A q \in Locs(ret.view.sizes_) :
                 q[N + 1] < n /\ SameElement(ret.view, q, SubSeq(q, 1, N))

\* C11 witness: a two-dimensional view returned by a transformation is repeated twice
C11_RepeatTwice ==
  /\ call.kind = "repeat" /\ ret.err = "none"
  /\ call.args[1] = 2
  /\ Dim(cur) = 2 /\ depth >= 1


\* C12: reshape raises the shape-incompatibility error when an axis of the condensed
\* source is left with a remaining size other than 1 after the walk, so a view that
\* reshape returns has the total size of the source, size().
C12_ReshapeKeepsTotalSize ==
  (call.kind = "reshape" /\ ret.err = "none") =>
    /\ ret.view.sizes_ = call.args[1]
    /\ size(ret.view.sizes_) = size(cur.sizes_)

\* C13: a view that reshape returns shares the buffer and the base of the source, and
\* its k-th element in row-major order is the k-th element in row-major order of the
\* source.
C13_ReshapeKeepsOrder ==
  (call.kind = "reshape" /\ ret.err = "none") =>
    /\ ret.view.data_ = cur.data_
    /\ \A k \in 1..size(ret.view.sizes_) :
         /\ k <= size(cur.sizes_)
         /\ Canonical(ret.view)[k] = Canonical(cur)[k]

\* C14: on a view with isContiguous() and isAligned() and total size S, reshape({S})
\* succeeds, and reshape(originalSizes) on its result succeeds and reproduces exactly
\* the original sizes and steps.
C14_FlattenAndBack ==
  (/\ call.kind = "reshape"
   /\ isContiguous(cur) /\ isAligned(cur)
   /\ call.args[1] = <<size(cur.sizes_)>>) =>
    /\ ret.err = "none"
    /\ LET back == reshape(ret.view, cur.sizes_)
       IN /\ back.err = "none"
          /\ back.view.sizes_ = cur.sizes_
          /\ back.view.steps_ = cur.steps_

\* C15: on every view reachable from a freshly constructed one, isContiguous() and
\* isAligned() together imply that the canonical-order traversal visits the addresses
\* base, base+1, ..., base+size()-1 in that order.
C15_ContiguousAlignedIsSegment ==
  (depth >= 1 /\ isContiguous(cur) /\ isAligned(cur)) =>
    Canonical(cur) = [k \in 1..size(cur.sizes_) |-> cur.data_.ptr + (k - 1)]

\* the buffer addresses a view reaches
Addresses(v) == {atUnchecked(v, loc) : loc \in Locs(v.sizes_)}

Visits(v, a) == Cardinality({loc \in Locs(v.sizes_) : atUnchecked(v, loc) = a})

\* the distance between the first and the last address of the axes after axis i
RECURSIVE SpanAfter(_, _)
SpanAfter(v, i) ==
  IF i >= Dim(v) THEN 0 ELSE v.steps_[i + 1] * (v.sizes_[i + 1] - 1) + SpanAfter(v, i + 1)

StrictlyIncreasing(c) == \A k \in 1..(Len(c) - 1) : c[k] < c[k + 1]

Span(v) ==
  LET A == Addresses(v)
      lo == CHOOSE a \in A : \A b \in A : a <= b
      hi == CHOOSE a \in A : \A b \in A : b <= a
  IN hi - lo + 1

\* C17: isContiguous() is true exactly when the span of the reachable addresses
\* (highest - lowest + 1) equals the element count, whatever the traversal order:
\* flip(dim) and transpose(dim1, dim2) return views with the isContiguous() of the
\* receiver.
C17_ContiguousIsSpan ==
  /\ ~empty(cur) => (isContiguous(cur) <=> Span(cur) = size(cur.sizes_))
  /\ (call.kind \in {"flip", "transpose"} /\ ret.err = "none") =>
       (isContiguous(ret.view) <=> isContiguous(cur))

\* the element of storage m that view v has at location loc
ValueAt(m, v, loc) == Load(m, SharedPtr(v.data_.cb, atUnchecked(v, loc)))

\* C18: on a non-empty view with any steps, clone() returns a view on a newly
\* allocated buffer with the sizes of the receiver, for which isContiguous() and
\* isAligned() are true and clone.at(loc) == original.at(loc) at every valid loc; a
\* later write through one of the two views is not observed through the other.
C18_CloneCopiesElements ==
  [][/\ (call'.kind = "clone" /\ call.kind = "none" /\ ~empty(cur)) =>
         /\ ret'.err = "none"
         /\ ret'.view.data_.cb # cur.data_.cb
         /\ Len(mem[ret'.view.data_.cb]) = 0
         /\ Len(mem'[ret'.view.data_.cb]) = size(cur.sizes_)
         /\ mem'[cur.data_.cb] = mem[cur.data_.cb]
         /\ ret'.view.sizes_ = cur.sizes_
         /\ isContiguous(ret'.view) /\ isAligned(ret'.view)
         /\ \A loc \in Locs(cur.sizes_) :
              /\ at(ret'.view, loc).err = "none"
              /\ InBlock(mem', SharedPtr(ret'.view.data_.cb, at(ret'.view, loc).addr))
              /\ ValueAt(mem', ret'.view, loc) = ValueAt(mem, cur, loc)
     /\ (call'.kind = "assign" /\ call.kind = "clone") =>
         LET through == call'.args[1]
             other == IF through = cur THEN ret.view ELSE cur
         IN /\ ValueAt(mem', through, call'.args[2]) = call'.args[3]
            /\ \A loc \in Locs(cur.sizes_) : ValueAt(mem', other, loc) = ValueAt(mem, other, loc)
    ]_vars

\* a transposed view was cloned and then written through the clone
C18_CloneOfTransposed ==
  /\ call.kind = "assign" /\ call.args[1] = ret.view
  /\ Dim(cur) = 2 /\ cur.steps_[1] < cur.steps_[2]
  /\ size(cur.sizes_) > 2
  /\ ValueAt(mem, ret.view, call.args[2]) # ValueAt(mem, cur, call.args[2])

\* C19: on a non-empty view, convertTo<U>(fn) returns a view on a new buffer with the
\* sizes of the receiver and result.at(loc) == fn(source.at(loc)) at every valid loc;
\* fn is applied exactly size() times, and the traversal reads no address outside
\* the source view and writes no address outside the new buffer.
C19_ConvertAppliesFnOnce ==
  (call.kind = "convertTo" /\ ~empty(cur)) =>
    /\ ret.err = "none"
    /\ ret.view.data_.cb # cur.data_.cb
    /\ ret.view.sizes_ = cur.sizes_
    /\ \A loc \in Locs(cur.sizes_) :
         ValueAt(mem, ret.view, loc) = fn(ValueAt(mem, cur, loc))
    /\ Len(ret.ptrs) = size(cur.sizes_)
    /\ \A k \in 1..Len(ret.ptrs) :
         /\ ret.ptrs[k].src.ptr \in Addresses(cur)
         /\ InBlock(mem, ret.ptrs[k].dst)

\* a masked setTo has just returned
MaskedSetTo ==
  /\ call.kind = "none" /\ call'.kind \in {"setToVal", "setToArr"} /\ ret'.err = "void"
  /\ call'.args[2].sizes_ = cur.sizes_

\* the buffer elements outside A keep their value over the step
KeptOutside(b, A) ==
  \A k \in 1..Len(mem[b]) : (BlockBase(b) + k - 1) \notin A => mem'[b][k] = mem[b][k]

\* C20: setTo(val, mask) and setTo(arr, mask) with a mask of identical shape write the
\* new value at exactly the locations where mask.at(loc) is true: the element at a
\* location where the mask is false, and every buffer element outside the view,
\* keeps its prior value.
C20_MaskedWritesOnlyWhereTrue ==
  [][MaskedSetTo =>
      LET mask == call'.args[2]
          arr == call'.args[1]
      IN /\ \A loc \in Locs(cur.sizes_) :
              IF ValueAt(mem', mask, loc)
              THEN /\ call'.kind = "setToVal" => ValueAt(mem', cur, loc) = call'.args[1]
                   /\ (call'.kind = "setToArr" /\ arr.data_.cb # cur.data_.cb) =>
                        ValueAt(mem', cur, loc) = ValueAt(mem', arr, loc)
              ELSE ValueAt(mem', cur, loc) = ValueAt(mem, cur, loc)
         /\ KeptOutside(cur.data_.cb, Addresses(cur))
    ]_vars

\* C20 (amended): a masked setTo writes exactly the buffer elements that the view
\* addresses at some location where the mask is true; every other buffer element
\* keeps its prior value.  After setTo(val, mask) every location where the mask is
\* true holds val; after setTo(arr, mask) with an arr that shares no element with the
\* view, a written element holds arr.at(loc) of the last location loc, in canonical
\* order, that addresses it and has the mask true.
C20_MaskedWritesFrame ==
  [][MaskedSetTo =>
      LET mask == call'.args[2]
          arr == call'.args[1]
          c == Canonical(cur)
          True == {k \in 1..Len(c) : ValueAt(mem', mask, Unravel(k - 1, cur.sizes_))}
      IN /\ KeptOutside(cur.data_.cb, {c[k] : k \in True})
         /\ \A k \in True :
              LET last == CHOOSE j \in True : c[j] = c[k] /\ \A i \in True : c[i] = c[k] => i <= j
                  x == Load(mem', SharedPtr(cur.data_.cb, c[k]))
              IN /\ call'.kind = "setToVal" => x = call'.args[1]
                 /\ (call'.kind = "setToArr" /\ arr.data_.cb # cur.data_.cb) =>
                      x = ValueAt(mem', arr, Unravel(last - 1, cur.sizes_))
    ]_vars

\* a flipped view took elements of arr where the mask is true and kept the others
C20_MaskedCopyIntoFlipped ==
  /\ call.kind = "setToArr" /\ ret.err = "void"
  /\ call.args[1].data_.cb # cur.data_.cb
  /\ \E i \in 1..Dim(cur) : cur.steps_[i] < 0
  /\ \E loc \in Locs(cur.sizes_) :
       ValueAt(mem, call.args[2], loc) /\ ValueAt(mem, cur, loc) = ValueAt(mem, call.args[1], loc)
  /\ \E loc \in Locs(cur.sizes_) :
       ~ValueAt(mem, call.args[2], loc) /\ ValueAt(mem, cur, loc) > 0

\* C21: setTo(arr), setTo(arr, mask), setTo(val, mask), operator+=(arr) and
\* operator-=(arr) with an argument view or mask whose sizes differ from the sizes of
\* the receiver raise the invalid-argument error and leave every buffer element as
\* it was.
C21_MismatchRaisesBeforeWrite ==
  [][(/\ call.kind = "none"
      /\ call'.kind \in {"copy", "add", "sub", "setToArr", "setToVal"}
      /\ \E a \in (IF call'.kind = "setToVal" THEN {2} ELSE 1..Len(call'.args)) :
           call'.args[a].sizes_ # cur.sizes_) =>
       /\ ret'.err = "invalid_argument"
       /\ mem'[cur.data_.cb] = mem[cur.data_.cb]
    ]_vars

\* C22: NArray(size) with some sizes[i] = 0 and none negative raises nothing and
\* constructs an empty view (no buffer reference, sizes and steps all zero); with
\* some sizes[i] < 0 it raises an error; neither creates a buffer.
C22_ZeroSizeIsEmpty ==
  [][\A sz \in CtorSizes :
       (Construct(sz) /\ \E i \in 1..Len(sz) : sz[i] <= 0) =>
         /\ nblocks' = nblocks /\ use_count' = use_count
         /\ IF \E i \in 1..Len(sz) : sz[i] < 0
            THEN op' = Threw(sz) /\ live' = live
            ELSE /\ op' = NoCall
                 /\ live' = live \cup {NewSlot}
                 /\ views'[NewSlot] = EmptyView(Len(sz))
    ]_vars

\* C22 (amended): NArray(size) with some sizes[i] <= 0 raises the invalid-argument
\* error and constructs nothing: no object, no buffer, every existing object and
\* count as before; with every sizes[i] > 0 it constructs a view of those sizes
\* and canonical steps that is the one owner of a new buffer of size(size) elements.
C22_NonPositiveSizeRaises ==
  [][\A sz \in CtorSizes :
       Construct(sz) =>
         IF \E i \in 1..Len(sz) : sz[i] <= 0
         THEN /\ op' = Threw(sz)
              /\ live' = live /\ views' = views
              /\ nblocks' = nblocks /\ use_count' = use_count /\ mem' = mem
         ELSE /\ op' = NoCall
              /\ live' = live \cup {NewSlot}
              /\ views'[NewSlot].sizes_ = sz /\ views'[NewSlot].steps_ = step(sz)
              /\ nblocks' = nblocks + 1
              /\ use_count'[views'[NewSlot].data_.cb] = 1
              /\ Len(mem'[views'[NewSlot].data_.cb]) = size(sz)
    ]_vars

\* C22 witness: NArray(size) has thrown on a size tuple with a zero and no negative
\* entry, beside a constructed view that owns the buffer
C22_ZeroSizeThrew ==
  /\ op.src = 0 /\ op # NoCall
  /\ \E i \in 1..Len(op.size) : op.size[i] = 0
  /\ \A i \in 1..Len(op.size) : op.size[i] >= 0
  /\ \E j \in live : ~empty(views[j]) /\ use_count[views[j].data_.cb] = 1

\* C23: singleOp2_, unaryOp2_ and binaryOp2_ apply op exactly once for each index
\* tuple of the sizes, size() times in all, in canonical order, to the elements at
\* base + sum(loc[i] * steps[i]) of every participating array, also when steps of
\* the destination are negative or zero.
C23_Op2VisitsCanonical ==
  call.kind \in {"singleOp2_", "unaryOp2_", "binaryOp2_"} =>
    LET operands == <<cur>> \o call.args
    IN /\ Len(ret.ptrs) = size(cur.sizes_)
       /\ \A k \in 1..Len(ret.ptrs) : \A a \in DOMAIN operands :
            ret.ptrs[k][a] = Canonical(operands[a])[k]

\* the element of rank r (from 0) of the elements of view v in ascending order
Ranked(m, v, r) ==
  LET vals == [k \in 1..size(v.sizes_) |-> Load(m, SharedPtr(v.data_.cb, Canonical(v)[k]))]
  IN CHOOSE x \in 0..MaxVal :
       /\ Cardinality({k \in DOMAIN vals : vals[k] < x}) <= r
       /\ r < Cardinality({k \in DOMAIN vals : vals[k] <= x})

\* C24: on a non-empty view of n elements with any values, median returns the
\* element of rank n / 2 (from 0) in ascending order and leaves the elements of the
\* buffer as they were.
C24_MedianIsMiddleRank ==
  [][(call.kind = "none" /\ call'.kind = "median") =>
       /\ ret'.err = "value"
       /\ ret'.val = Ranked(mem, cur, size(cur.sizes_) \div 2)
       /\ mem' = mem
    ]_vars

\* the parts of C25 that do not depend on which axes size the result: compress<M>
\* returns an M-dimensional view on a new buffer, visits the sub-views at the
\* positions of the leading M axes in canonical order, as many as the result has
\* elements, and the k-th element of the result is func of the k-th sub-view, written
\* once and inside the result's buffer
CompressedEach(M) ==
  LET lead == SubSeq(cur.sizes_, 1, M)
  IN /\ ret.err = "none"
     /\ ret.view.data_.cb # cur.data_.cb
     /\ Dim(ret.view) = M
     /\ Len(mem[ret.view.data_.cb]) = size(ret.view.sizes_)
     /\ Len(ret.subs) = size(ret.view.sizes_)
     /\ ~ret.wild
     /\ \A k \in 1..Len(ret.subs) :
          /\ ret.subs[k] = subarrayAt(cur, Unravel(k - 1, lead)).view
          /\ ret.ptrs[k] = Canonical(ret.view)[k]
          /\ InBlock(mem, SharedPtr(ret.view.data_.cb, ret.ptrs[k]))
          /\ \A j \in 1..Len(ret.ptrs) : ret.ptrs[j] = ret.ptrs[k] => j = k
          /\ Load(mem, SharedPtr(ret.view.data_.cb, ret.ptrs[k])) = func(mem, ret.subs[k])

RECURSIVE SlicedAt(_, _)
SlicedAt(v, pos) ==
  IF Len(pos) = 0 THEN v ELSE SlicedAt(slice(v, 0, pos[1]).view, Tail(pos))

\* C26: on a non-empty view, subarrayAt(pos) with pos of arity M < N and
\* 0 <= pos[i] < sizes[i] returns the (N-M)-dimensional view whose sizes and steps
\* are the trailing N-M of the receiver's and whose base is advanced by the sum of
\* pos[i] * steps[i]; its element at q is the receiver's element at pos followed by
\* q; it is the view that slice(0, pos[0]), slice(0, pos[1]), ... in turn return.  An
\* out-of-range pos[i] raises the bounds error.
C26_SubarrayAtFixesLeading ==
  (call.kind = "subarrayAt" /\ ~empty(cur)) =>
    LET pos == call.args[1]
        M == Len(pos)
        N == Dim(cur)
    IN IF \A i \in 1..M : 0 <= pos[i] /\ pos[i] < cur.sizes_[i]
       THEN /\ ret.err = "none"
            /\ ret.view.data_.cb = cur.data_.cb
            /\ ret.view.sizes_ = SubSeq(cur.sizes_, M + 1, N)
            /\ ret.view.steps_ = SubSeq(cur.steps_, M + 1, N)
            /\ ret.view.data_.ptr = cur.data_.ptr + Dot(pos, SubSeq(cur.steps_, 1, M), 1)
            /\ \A q \in Locs(ret.view.sizes_) : SameElement(ret.view, q, pos \o q)
            /\ ret.view = SlicedAt(cur, pos)
       ELSE ret.err = "out_of_range"

\* C26 witness: subarrayAt with a pos of two coordinates, not both zero, has
\* returned a view of the last axis of a three-dimensional receiver
C26_TwoAxesFixed ==
  /\ call.kind = "subarrayAt" /\ ret.err = "none"
  /\ Dim(cur) = 3 /\ Len(call.args[1]) = 2
  /\ call.args[1] # <<0, 0>>
  /\ ret.view.data_.ptr # cur.data_.ptr

\* C27: on a view for which isContiguous() and isAligned() are both true,
\* asCondensed() returns a view whose last axis has size size() and step 1 and whose
\* every other axis has size 1.
C27_CondensedToOneAxis ==
  (call.kind = "asCondensed" /\ isContiguous(cur) /\ isAligned(cur)) =>
    /\ ret.err = "none"
    /\ ret.view.data_ = cur.data_
    /\ ret.view.sizes_[Dim(cur)] = size(cur.sizes_)
    /\ ret.view.steps_[Dim(cur)] = 1
    /\ \A i \in 1..(Dim(cur) - 1) : ret.view.sizes_[i] = 1

\* C29: on a non-empty view with any steps, asCondensed() returns a view with the
\* same base and the same size() whose canonical-order traversal visits the same
\* sequence of addresses as that of the receiver.
C29_CondensedSameTraversal ==
  (call.kind = "asCondensed" /\ ~empty(cur)) =>
    /\ ret.err = "none"
    /\ ret.view.data_ = cur.data_
    /\ size(ret.view.sizes_) = size(cur.sizes_)
    /\ Canonical(ret.view) = Canonical(cur)

\* the offsets that the nested loops over the first n axes of sizes visit with steps
Offsets(sizes, steps, n) ==
  Canonical(View(SharedPtr(1, 0), SubSeq(sizes, 1, n), SubSeq(steps, 1, n)))

\* the contiguity test of condense on axes i and i + 1 (from 1)
Mergeable(sizes, steps, i) == sizes[i + 1] * steps[i + 1] = steps[i]

\* C28: condense(sizes, step1, step2) merges two adjacent axes only when the
\* contiguity test holds for both step1 and step2, so the traversal of the first
\* `return value` condensed axes visits, in the same order, the address pairs that
\* the traversal of the original sizes with the original step1 and step2 visits.
C28_CondenseKeepsBothTraversals ==
  call.kind = "condense" =>
    LET sizes == call.args[1]
        step1 == call.args[2]
        step2 == call.args[3]
        N == Len(sizes)
    IN /\ N - ret.c.n <= Cardinality({i \in 1..(N - 1) : Mergeable(sizes, step1, i)
                                                         /\ Mergeable(sizes, step2, i)})
       /\ Offsets(ret.c.sizes, ret.c.step1, ret.c.n) = Offsets(sizes, step1, N)
       /\ Offsets(ret.c.sizes, ret.c.step2, ret.c.n) = Offsets(sizes, step2, N)

\* C28 (amended): condense(sizes, step1, step2) merges two adjacent axes exactly
\* when the contiguity test holds for step1; the traversal of the first `return
\* value` condensed axes visits in the same order the addresses of the original
\* sizes and step1, and also those of step2 whenever step2 passes the test on every
\* pair of axes on which step1 does.
C28_CondenseKeepsFirstTraversal ==
  call.kind = "condense" =>
    LET sizes == call.args[1]
        step1 == call.args[2]
        step2 == call.args[3]
        N == Len(sizes)
    IN /\ N - ret.c.n = Cardinality({i \in 1..(N - 1) : Mergeable(sizes, step1, i)})
       /\ Offsets(ret.c.sizes, ret.c.step1, ret.c.n) = Offsets(sizes, step1, N)
       /\ (\A i \in 1..(N - 1) : Mergeable(sizes, step1, i) => Mergeable(sizes, step2, i))
            => Offsets(ret.c.sizes, ret.c.step2, ret.c.n) = Offsets(sizes, step2, N)

\* C28 witness: two axes longer than 1 have been condensed to one axis of step 1 for
\* the first array, with steps of a second array that pass the test as well
C28_TwoAxesMerged ==
  /\ call.kind = "condense"
  /\ Len(call.args[1]) = 2 /\ call.args[1][1] > 1 /\ call.args[1][2] > 1
  /\ ret.c.n = 1 /\ ret.c.step1[1] = 1
  /\ Mergeable(call.args[1], call.args[3], 1)
  /\ call.args[3] # call.args[2]

\* C29 witness: asCondensed() has merged two axes of a three-dimensional view that
\* has a negative step
C29_MergedBesideNegative ==
  /\ call.kind = "asCondensed" /\ ret.err = "none"
  /\ Dim(cur) = 3
  /\ \E i \in 1..3 : cur.steps_[i] < 0 /\ cur.sizes_[i] > 1
  /\ ret.view.sizes_ # cur.sizes_
  /\ \E i \in 1..3 : ret.view.sizes_[i] = 4

\* every valid location of view v maps to an element of the buffer of count elements
\* that v references
InBuffer(v, count) ==
  \A loc \in Locs(v.sizes_) :
    LET offset == atUnchecked(v, loc) - BlockBase(v.data_.cb)
    IN 0 <= offset /\ offset < count

\* C30: every view reached from a constructed view over a buffer of count elements
\* by transformations that returned normally maps every valid location to an
\* address inside the buffer.
C30_DerivedViewsInBuffer ==
  /\ ~empty(cur) => InBuffer(cur, Len(mem[cur.data_.cb]))
  /\ (call.kind # "none" /\ ret.err = "none" /\ ~empty(ret.view)) =>
       InBuffer(ret.view, Len(mem[cur.data_.cb]))

\* C30 witness: after two transformations asAligned() has returned a view of a view
\* with a negative step, starting at another address than its receiver
C30_AlignedAfterChain ==
  /\ call.kind = "asAligned" /\ ret.err = "none"
  /\ depth >= 2
  /\ \E i \in 1..Dim(cur) : cur.steps_[i] < 0
  /\ ret.view.data_.ptr # cur.data_.ptr
====
